---------------------------- MODULE Spec2Model ----------------------------
(***************************************************************************)
(* A model of pkmnfeverdream's core: the pre-fetch queue of the Pokemon    *)
(* generation service (PokemonGenerationService), the breakpoint-aware     *)
(* frame loop of the emulator wrapper (EmulatorWrapper) and the one-shot   *)
(* injection callback of the battle controller (BattleController).         *)
(*                                                                         *)
(* JavaScript runs every handler to completion: a macrotask (a frame, a    *)
(* click, a timer) and the microtasks it queues (promise continuations)    *)
(* are one atomic step of the model.                                       *)
(***************************************************************************)
EXTENDS Integers, Sequences, FiniteSets, TLC

(***************************************************************************)
(* Bounds of the model.                                                    *)
(***************************************************************************)
MaxTasks == 3       \* generation tasks (doGenerate calls) started in a run
MaxCalls == 3       \* getNext()/getNextIfReady() calls made in a run
MaxPrefetch == 2    \* prefetch() calls counted in a run
MaxInvalidate == 2  \* invalidateQueue() calls counted in a run

VARIABLES
  \* ---- PokemonGenerationService (src/unnamed/part_002) ----
  queue,            \* this.queue: creatures ready, head first
  generating,       \* this.generating
  pendingPromise,   \* this.pendingPromise: the task it is the promise of, 0 = null
  inflight,         \* doGenerate() calls started and not yet settled
  owner,            \* task -> the getNext() call awaiting generateOne(), 0 = prefetch()
  waiters,          \* task -> the getNext() calls awaiting this.pendingPromise, in order
  started,          \* history: tasks in the order they were started
  completed,        \* history: tasks in the order they settled successfully
  returned,         \* history: <<call, creature>> in the order creatures were handed out
  rejected,         \* history: the getNext() calls that ended in a rejection
  failed,           \* history: the tasks whose doGenerate() rejected
  lastStateChange,  \* history: the last call of the service's onStateChange listener
  unhandled,        \* history: the tasks whose rejection reached no handler
  nCalls,           \* getNext()/getNextIfReady() calls made so far
  nPrefetch,        \* prefetch() calls made so far
  nInvalidate,      \* invalidateQueue() calls made so far
  invalidatedInFlight, \* history: tasks that were in flight at an invalidateQueue() call
  getNextCalls,     \* history: the calls that were getNext() (the others getNextIfReady())
  lastDoGenerate,   \* history: how the doGenerate() call that settled last ran, where
                    \* its branches are followed
  partyMon,         \* history: the last buildPartyMon() call, where the function is
                    \* taken on its own: its options and the struct it returned
  \* ---- Memory/Execution Port (binjgb, behind BinjgbModule) ----
  portTicks,        \* _emulator_get_ticks_f64
  portPC,           \* _emulator_get_PC
  portBreaks,       \* addresses flagged by _emulator_set_breakpoint
  mem,              \* guest RAM, video RAM and I/O registers: address -> byte
  romRets,          \* ROM: the addresses near LoadMonFrontSprite holding RET (0xC9)
  portJoyp,         \* buttons held down, as set by _set_joyp_*
  \* ---- EmulatorWrapper (src/unnamed/part_003) ----
  initialized,      \* this.module && this.emulator
  currentTicks,     \* this.currentTicks
  breakpoints,      \* this.breakpoints: address -> callback, "none" = no entry
  rfpc,             \* where runFrame() stands: "idle", "run" (before the Port call),
                    \* "check" (after it)
  targetTicks,      \* runFrame()'s local targetTicks
  frameStart,       \* history: currentTicks when the running/last runFrame() began
  nFrames,          \* history: runFrame() calls made so far
  raised,           \* history: an exception left runFrame()
  fired,            \* history: addresses whose callback ran since they were last added
  lastDispatch,     \* history: what the last pass through runFrame()'s loop body did
  armed,            \* history: addresses added by addBreakpoint() and not removed since
  earlyStops,       \* history: the Port stopped early in the running/last runFrame()
  nApi,             \* history: calls made so far by the wrapper's and controller's clients
  lastCall,         \* history: the last call made by such a client
  \* ---- BattleController (src/unnamed/part_004) ----
  state,            \* this.state
  gameReady,        \* this.gameReady
  currentPokemon,   \* this.currentPokemon, NoPokemon = null
  injectionPending, \* this.injectionPending
  breakpointInstalled, \* this.breakpointInstalled
  lastBattleState,  \* this.lastBattleState
  battleCount,      \* this.battleCount
  framesSinceLastCheck, \* this.framesSinceLastCheck
  prepareCalls,     \* the getNext() calls prepareNextPokemon() is awaiting
  lastUpdate,       \* history: what the last update() call did
  events,           \* history: the listeners' calls since the last battle start
  \* ---- the page (src/index.tsx) ----
  bootFrameCount,   \* bootFrameCount
  gameBooted,       \* gameBooted
  firstPokemon,     \* firstPokemon: the task that generated it, 0 = null
  generationComplete, \* generationComplete
  injectionDone,    \* injectionDone
  loopStep,         \* where gameLoop() stands: "frame" (before runFrame()), "update"
                    \* (before the update() call)
  regenerating,     \* the getNext() calls the regenerate handler is awaiting
  injections,       \* history: the injectGeneratedPokemon() calls of the page, with the
                    \* flags at the time of each
  encoded           \* history: the last encodeString() call, where the function is
                    \* taken on its own: its argument and the bytes it returned

genVars == <<queue, generating, pendingPromise, inflight, owner, waiters,
             started, completed, returned, rejected, failed, nCalls, nPrefetch,
             nInvalidate, invalidatedInFlight, getNextCalls, lastStateChange,
             unhandled>>

portVars == <<portTicks, portPC, portBreaks, mem, romRets, portJoyp>>

emuVars == <<initialized, currentTicks, breakpoints, rfpc, targetTicks, frameStart,
             nFrames, raised, fired, lastDispatch, armed, earlyStops, nApi,
             lastCall>>

ctlVars == <<state, gameReady, currentPokemon, injectionPending, breakpointInstalled>>

pollVars == <<lastBattleState, battleCount, framesSinceLastCheck, prepareCalls,
              lastUpdate, events>>

pageVars == <<bootFrameCount, gameBooted, firstPokemon, generationComplete, injectionDone,
              loopStep, regenerating, injections>>

vars == <<genVars, portVars, emuVars, ctlVars, pollVars, lastDoGenerate, partyMon,
          pageVars, encoded>>

Tasks == 1..MaxTasks
Calls == 1..MaxCalls

(***************************************************************************)
(* Sequence helpers.                                                       *)
(***************************************************************************)
Range(s) == {s[i] : i \in 1..Len(s)}

\* Array.prototype.indexOf: the first index holding x, 0 when there is none
\* (JavaScript's -1).
IndexOf(s, x) ==
  IF x \in Range(s) THEN CHOOSE i \in 1..Len(s) : s[i] = x /\ \A j \in 1..(i - 1) : s[j] # x
  ELSE 0

\* Array.prototype.splice(idx, 1).
SpliceOne(s, idx) == SubSeq(s, 1, idx - 1) \o SubSeq(s, idx + 1, Len(s))

\* A removal that leaves the creature in the queue.
RemoveIfQueued_Keeps(q, p) == q

\* "const idx = this.queue.indexOf(pokemon); if (idx >= 0) this.queue.splice(idx, 1)"
RemoveIfQueued(q, p) == IF IndexOf(q, p) > 0 THEN SpliceOne(q, IndexOf(q, p)) ELSE q

(***************************************************************************)
(* PokemonGenerationService.                                               *)
(***************************************************************************)
\* buildPartyMon() has not been called on its own.
NoPartyMon ==
  [creature |-> [level |-> 0, moves |-> <<>>,
                 baseStats |-> [hp |-> 0, attack |-> 0, defense |-> 0, speed |-> 0,
                                special |-> 0]],
   options |-> [species |-> 0, level |-> 0, moves |-> <<>>, hp |-> -1, maxHp |-> -1],
   struct |-> <<>>]

\* encodeString() has not been called on its own.
NoEncoded == [str |-> <<>>, bytes |-> <<>>, writes |-> <<>>]

BOOT_FRAMES == 660  \* "const BOOT_FRAMES = 660"

\* The page's variables as declared: init() has not started gameLoop().
PageLoaded ==
  /\ bootFrameCount = 0
  /\ gameBooted = FALSE
  /\ firstPokemon = 0
  /\ generationComplete = FALSE
  /\ injectionDone = FALSE
  /\ loopStep = "frame"
  /\ regenerating = {}
  /\ injections = <<>>

\* The page's variables after tryInjectFirstPokemon() has injected the creature of
\* task 1, with the boot period over.
PageStarted ==
  /\ bootFrameCount = BOOT_FRAMES
  /\ gameBooted = TRUE
  /\ firstPokemon = 1
  /\ generationComplete = TRUE
  /\ injectionDone = TRUE
  /\ loopStep = "update"
  /\ regenerating = {}
  /\ injections = << [pokemon |-> 1, by |-> "tryInjectFirstPokemon", gameBooted |-> TRUE,
                      generationComplete |-> TRUE] >>

\* The service's onStateChange listener has not been called.  A call is recorded
\* as its state and the task whose creature or error it carries (0: neither).
NoStateChange == [state |-> "none", task |-> 0]

\* A prefetch() that drops the promise of generateOne().
prefetchRejection_Dropped(t) == {t}

\* prefetch(): "this.generateOne().catch(err => { console.error(...) })": the
\* rejections of task t, started by prefetch(), that reach no handler.
prefetchRejection(t) == {}

\* No doGenerate() call has settled.
NoDoGenerate ==
  [task |-> 0, roll |-> 0, provider |-> "skipped", fallback |-> "skipped",
   resolved |-> FALSE, pokemon |-> [name |-> <<>>, level |-> 0]]

GenInit ==
  /\ lastDoGenerate = NoDoGenerate
  /\ partyMon = NoPartyMon
  /\ encoded = NoEncoded
  /\ PageLoaded
  /\ queue = <<>>
  /\ generating = FALSE
  /\ pendingPromise = 0
  /\ inflight = {}
  /\ owner = [t \in Tasks |-> 0]
  /\ waiters = [t \in Tasks |-> <<>>]
  /\ started = <<>>
  /\ lastStateChange = NoStateChange
  /\ unhandled = {}
  /\ completed = <<>>
  /\ returned = <<>>
  /\ rejected = {}
  /\ failed = {}
  /\ nCalls = 0
  /\ nPrefetch = 0
  /\ nInvalidate = 0
  /\ invalidatedInFlight = {}
  /\ getNextCalls = {}

\* The in-flight slot a mutated generateOne() leaves: "this.generating = true" lost.
SlotOnStart_NoFlag(t) == [generating |-> FALSE, pendingPromise |-> t]

\* generateOne(): "this.generating = true; ... this.pendingPromise = this.doGenerate()".
SlotOnStart(t) == [generating |-> TRUE, pendingPromise |-> t]

\* generateOne() up to its first await, called for `who` (a getNext() call, or 0 for
\* prefetch()).  With the slot taken it hands back the pending promise; otherwise it
\* starts doGenerate() and awaits it.
GenerateOneStart(who) ==
  IF generating /\ pendingPromise # 0
  THEN /\ waiters' = [waiters EXCEPT ![pendingPromise] =
                        IF who = 0 THEN @ ELSE Append(@, who)]
       /\ UNCHANGED <<generating, pendingPromise, inflight, owner, started, lastStateChange>>
  ELSE /\ Len(started) < MaxTasks
       /\ LET t == Len(started) + 1 IN
            /\ generating' = SlotOnStart(t).generating
            /\ pendingPromise' = SlotOnStart(t).pendingPromise
            /\ inflight' = inflight \cup {t}
            /\ owner' = [owner EXCEPT ![t] = who]
            /\ started' = Append(started, t)
            /\ lastStateChange' = [state |-> "generating", task |-> 0]
            /\ UNCHANGED waiters

\* A prefetch() that looks at the in-flight flag only, not at the queue.
Prefetch_IgnoresQueue ==
  /\ nPrefetch < MaxPrefetch
  /\ nPrefetch' = nPrefetch + 1
  /\ IF generating
     THEN UNCHANGED <<generating, pendingPromise, inflight, owner, waiters, started, lastStateChange>>
     ELSE GenerateOneStart(0)
  /\ UNCHANGED <<queue, completed, returned, rejected, unhandled, failed, nCalls, nInvalidate,
                 invalidatedInFlight, getNextCalls>>

\* prefetch()
Prefetch ==
  /\ nPrefetch < MaxPrefetch
  /\ nPrefetch' = nPrefetch + 1
  /\ IF generating \/ Len(queue) > 0
     THEN UNCHANGED <<generating, pendingPromise, inflight, owner, waiters, started, lastStateChange>>
     ELSE GenerateOneStart(0)
  /\ UNCHANGED <<queue, completed, returned, rejected, unhandled, failed, nCalls, nInvalidate,
                 invalidatedInFlight, getNextCalls>>

\* getNextIfReady(): the head, or null.
GetNextIfReady ==
  /\ nCalls < MaxCalls
  /\ nCalls' = nCalls + 1
  /\ IF Len(queue) > 0
     THEN /\ returned' = Append(returned, <<nCalls + 1, Head(queue)>>)
          /\ queue' = Tail(queue)
     ELSE UNCHANGED <<queue, returned>>
  /\ UNCHANGED <<generating, pendingPromise, inflight, owner, waiters, started, lastStateChange,
                 completed, rejected, unhandled, failed, nPrefetch, nInvalidate,
                 invalidatedInFlight, getNextCalls>>

\* getNext() up to its first await (or its return, with a creature queued).
GetNext ==
  /\ nCalls < MaxCalls
  /\ nCalls' = nCalls + 1
  /\ IF Len(queue) > 0
     THEN /\ returned' = Append(returned, <<nCalls + 1, Head(queue)>>)
          /\ queue' = Tail(queue)
          /\ UNCHANGED <<generating, pendingPromise, inflight, owner, waiters, started, lastStateChange>>
     ELSE IF pendingPromise # 0
     THEN /\ waiters' = [waiters EXCEPT ![pendingPromise] = Append(@, nCalls + 1)]
          /\ UNCHANGED <<queue, returned, generating, pendingPromise, inflight, owner,
                         started, lastStateChange>>
     ELSE /\ GenerateOneStart(nCalls + 1)
          /\ UNCHANGED <<queue, returned>>
  /\ getNextCalls' = getNextCalls \cup {nCalls + 1}
  /\ UNCHANGED <<completed, rejected, unhandled, failed, nPrefetch, nInvalidate,
                 invalidatedInFlight>>

\* An invalidateQueue() that also gives up the task in flight.
InvalidateQueue_DropsTask ==
  /\ nInvalidate < MaxInvalidate
  /\ nInvalidate' = nInvalidate + 1
  /\ invalidatedInFlight' = invalidatedInFlight \cup inflight
  /\ queue' = <<>>
  /\ generating' = FALSE
  /\ pendingPromise' = 0
  /\ UNCHANGED <<inflight, owner, waiters, started, lastStateChange, completed, returned, rejected, unhandled,
                 failed, nCalls, nPrefetch, getNextCalls>>

\* invalidateQueue()
InvalidateQueue ==
  /\ nInvalidate < MaxInvalidate
  /\ nInvalidate' = nInvalidate + 1
  /\ invalidatedInFlight' = invalidatedInFlight \cup inflight
  /\ queue' = <<>>
  /\ UNCHANGED <<generating, pendingPromise, inflight, owner, waiters, started, lastStateChange,
                 completed, returned, rejected, unhandled, failed, nCalls, nPrefetch, getNextCalls>>

\* The getNext() calls resumed when task t settles, in the order their continuations
\* run: the ones awaiting this.pendingPromise (reactions of doGenerate()'s promise,
\* queued when it settles), then the one awaiting generateOne() (whose promise
\* settles only when generateOne()'s own continuation has run).
Resumed(t) == waiters[t] \o (IF owner[t] = 0 THEN <<>> ELSE <<owner[t]>>)

\* The queue after the resumed calls c[1..n] each ran
\* "idx = queue.indexOf(pokemon); if (idx >= 0) queue.splice(idx, 1); return pokemon".
RECURSIVE QueueAfterResumed(_, _, _)
QueueAfterResumed(q, t, n) ==
  IF n = 0 THEN q ELSE QueueAfterResumed(RemoveIfQueued(q, t), t, n - 1)

\* doGenerate() of task t resolves: generateOne()'s continuation pushes the creature
\* and clears the slot (finally), then every call awaiting the task returns it.
TaskComplete(t) ==
  /\ t \in inflight
  /\ inflight' = inflight \ {t}
  /\ completed' = Append(completed, t)
  /\ lastStateChange' = [state |-> "ready", task |-> t]
  /\ queue' = QueueAfterResumed(Append(queue, t), t, Len(Resumed(t)))
  /\ generating' = FALSE
  /\ pendingPromise' = 0
  /\ returned' = returned \o [i \in 1..Len(Resumed(t)) |-> <<Resumed(t)[i], t>>]
  /\ waiters' = [waiters EXCEPT ![t] = <<>>]
  /\ owner' = [owner EXCEPT ![t] = 0]
  /\ UNCHANGED <<started, rejected, unhandled, failed, nCalls, nPrefetch, nInvalidate,
                 invalidatedInFlight, getNextCalls>>

\* doGenerate() of task t rejects (the fallback generator threw as well):
\* generateOne() rethrows, clears the slot (finally), and every call awaiting the
\* task is rejected.
TaskFail(t) ==
  /\ t \in inflight
  /\ inflight' = inflight \ {t}
  /\ generating' = FALSE
  /\ pendingPromise' = 0
  /\ rejected' = rejected \cup Range(Resumed(t))
  /\ failed' = failed \cup {t}
  /\ lastStateChange' = [state |-> "error", task |-> t]
  /\ unhandled' = unhandled \cup (IF owner[t] = 0 THEN prefetchRejection(t) ELSE {})
  /\ waiters' = [waiters EXCEPT ![t] = <<>>]
  /\ owner' = [owner EXCEPT ![t] = 0]
  /\ UNCHANGED <<queue, started, completed, returned, nCalls, nPrefetch, nInvalidate,
                 invalidatedInFlight, getNextCalls>>

(***************************************************************************)
(* Memory map and encodings (src/graphics/SpriteEncoder.ts holds the       *)
(* module the sources import as '../emulator/MemoryMap').                  *)
(***************************************************************************)
\* WRAM: the guest addresses the program reads and writes.
WRAM ==
  [ wBattleResult      |-> 53003,   \* 0xCF0B
    wEnemyMonSpecies2  |-> 53208,   \* 0xCFD8
    wEnemyMonNick      |-> 53210,   \* 0xCFDA, 11 bytes
    wEnemyMonSpecies   |-> 53221,   \* 0xCFE5
    wEnemyMonMoves     |-> 53229,   \* 0xCFED
    wEnemyMonLevel     |-> 53235,   \* 0xCFF3
    wEnemyMonBaseStats |-> 53250,   \* 0xD002, 5 bytes
    wIsInBattle        |-> 53335,   \* 0xD057
    wCurOpponent       |-> 53337,   \* 0xD059
    wCurEnemyLevel     |-> 53543,   \* 0xD127
    wPartyCount        |-> 53603,   \* 0xD163
    wPartySpecies      |-> 53604,   \* 0xD164
    wPartyMon1         |-> 53611,   \* 0xD16B
    wPartyMon1OT       |-> 53875,   \* 0xD273
    wPartyMon1Nick     |-> 53941,   \* 0xD2B5
    wObtainedBadges    |-> 55082 ]  \* 0xD72A

POKEMON == [ RHYDON |-> 1, MEW |-> 21, PIKACHU |-> 84 ]

MOVES == [ NONE |-> 0, SCRATCH |-> 10, TACKLE |-> 33, QUICK_ATTACK |-> 98 ]

PARTYMON_STRUCT ==
  [ SPECIES |-> 0, HP |-> 1, BOX_LEVEL |-> 3, STATUS |-> 4, TYPE1 |-> 5, TYPE2 |-> 6,
    CATCH_RATE |-> 7, MOVES |-> 8, OT_ID |-> 12, EXP |-> 14, HP_EXP |-> 17,
    ATK_EXP |-> 19, DEF_EXP |-> 21, SPD_EXP |-> 23, SPC_EXP |-> 25, DVS |-> 27,
    PP |-> 29, LEVEL |-> 33, MAX_HP |-> 34, ATK |-> 36, DEF_ |-> 38, SPD |-> 40,
    SPC |-> 42, LENGTH |-> 44 ]

NAME_LENGTH == 11
TICKS_PER_FRAME == 70224
LOAD_MON_FRONT_SPRITE_ADDR == 5733     \* 0x1665
KNOWN_RET_ADDR == 115                  \* 0x0073
RET_OPCODE == 201                      \* 0xC9
SCAN_LIMIT == 200                      \* "offset < 200" in findRetAddress
LCDC_ADDR == 65344                     \* 0xFF40
VFRONTPIC_ADDR == 36864                \* 0x9000
TERMINATOR == 80                       \* 0x50, '@'
SPACE_CODE == 127                      \* 0x7F

UpperChars == <<"A", "B", "C", "D", "E", "F", "G", "H", "I", "J", "K", "L", "M",
                "N", "O", "P", "Q", "R", "S", "T", "U", "V", "W", "X", "Y", "Z">>
LowerChars == <<"a", "b", "c", "d", "e", "f", "g", "h", "i", "j", "k", "l", "m",
                "n", "o", "p", "q", "r", "s", "t", "u", "v", "w", "x", "y", "z">>
DigitChars == <<"0", "1", "2", "3", "4", "5", "6", "7", "8", "9">>

\* CHARMAP[c]; -1 stands for JavaScript's undefined (c is no key of CHARMAP).
CHARMAP(c) ==
  IF c \in Range(UpperChars) THEN 127 + IndexOf(UpperChars, c)        \* 'A' = 0x80
  ELSE IF c \in Range(LowerChars) THEN 159 + IndexOf(LowerChars, c)   \* 'a' = 0xA0
  ELSE IF c \in Range(DigitChars) THEN 245 + IndexOf(DigitChars, c)   \* '0' = 0xF6
  ELSE IF c = " " THEN SPACE_CODE
  ELSE IF c = "@" THEN TERMINATOR
  ELSE -1

\* String.prototype.toUpperCase on a string given as the sequence of its characters.
ToUpperCase(str) ==
  [i \in 1..Len(str) |->
     IF str[i] \in Range(LowerChars) THEN UpperChars[IndexOf(LowerChars, str[i])]
     ELSE str[i]]

Min(a, b) == IF a <= b THEN a ELSE b

\* An encodeString() that leaves no room for the terminator: it takes maxLen
\* characters, and a terminator past the end of the array is dropped.
encodeString_NoRoom(str, maxLen) ==
  LET chars == SubSeq(str, 1, Min(Len(str), maxLen)) IN
    [i \in 1..maxLen |->
       IF i <= Len(chars)
       THEN (IF CHARMAP(chars[i]) = -1 THEN SPACE_CODE ELSE CHARMAP(chars[i]))
       ELSE IF i = Len(chars) + 1 THEN TERMINATOR
       ELSE 0]

\* encodeString(str, maxLen): maxLen bytes, index i of the source is i + 1 here.
encodeString(str, maxLen) ==
  LET chars == SubSeq(str, 1, Min(Len(str), maxLen - 1)) IN
    [i \in 1..maxLen |->
       IF i <= Len(chars)
       THEN (IF CHARMAP(chars[i]) = -1 THEN SPACE_CODE ELSE CHARMAP(chars[i]))
       ELSE IF i = Len(chars) + 1 THEN TERMINATOR
       ELSE 0]

\* A Uint8Array element store: the value modulo 256.
U8(v) == v % 256

\* "(v >> 8) & 0xFF" with the low byte taken instead.
hiByte_Low(v) == v % 256

\* "(v >> 8) & 0xFF" and "v & 0xFF"
hiByte(v) == (v \div 256) % 256
loByte(v) == v % 256

\* "moves[i] ?? 0" with the moves taken from the far end.
moveAt_Reversed(moves, i) == IF 4 - i <= Len(moves) THEN U8(moves[4 - i]) ELSE 0

\* "struct[PARTYMON_STRUCT.MOVES + i] = moves[i] ?? 0"
moveAt(moves, i) == IF i + 1 <= Len(moves) THEN U8(moves[i + 1]) ELSE 0

\* An option the caller left out: <<-1>> for moves, -1 for hp and maxHp.
NoMoves == <<-1>>
Undefined == -1

\* buildPartyMon(options): the byte it leaves at offset o of the struct.
partyMonByte(options, o) ==
  LET S == PARTYMON_STRUCT
      level == options.level
      moves == IF options.moves = NoMoves THEN <<MOVES.TACKLE, 0, 0, 0>>
               ELSE options.moves
      baseHp == (((level * 2) + 10 + level) * level) \div 100 + level + 10
      hp == IF options.hp = Undefined THEN baseHp ELSE options.hp
      maxHp == IF options.maxHp = Undefined THEN baseHp ELSE options.maxHp
      atk == (level \div 2) + 10               \* Math.floor(level * 0.5) + 10
      def == ((level * 4) \div 10) + 10        \* Math.floor(level * 0.4) + 10
      spd == (level \div 2) + 10
      spc == (level \div 2) + 10
  IN
    IF o = S.SPECIES THEN U8(options.species)
    ELSE IF o = S.HP THEN hiByte(hp)
    ELSE IF o = S.HP + 1 THEN loByte(hp)
    ELSE IF o = S.BOX_LEVEL THEN U8(level)
    ELSE IF o = S.STATUS THEN 0
    ELSE IF o = S.TYPE1 THEN 0
    ELSE IF o = S.TYPE2 THEN 0
    ELSE IF o = S.CATCH_RATE THEN 45
    ELSE IF o \in S.MOVES..(S.MOVES + 3) THEN moveAt(moves, o - S.MOVES)
    ELSE IF o = S.OT_ID THEN 1
    ELSE IF o = S.OT_ID + 1 THEN 35
    ELSE IF o = S.EXP THEN 0
    ELSE IF o = S.EXP + 1 THEN 1
    ELSE IF o = S.EXP + 2 THEN 0
    ELSE IF o \in {S.DVS, S.DVS + 1} THEN 255
    ELSE IF o \in S.PP..(S.PP + 3) THEN 35
    ELSE IF o = S.LEVEL THEN U8(level)
    ELSE IF o = S.MAX_HP THEN hiByte(maxHp)
    ELSE IF o = S.MAX_HP + 1 THEN loByte(maxHp)
    ELSE IF o = S.ATK THEN hiByte(atk)
    ELSE IF o = S.ATK + 1 THEN loByte(atk)
    ELSE IF o = S.DEF_ THEN hiByte(def)
    ELSE IF o = S.DEF_ + 1 THEN loByte(def)
    ELSE IF o = S.SPD THEN hiByte(spd)
    ELSE IF o = S.SPD + 1 THEN loByte(spd)
    ELSE IF o = S.SPC THEN hiByte(spc)
    ELSE IF o = S.SPC + 1 THEN loByte(spc)
    ELSE 0

\* buildPartyMon(options): "new Uint8Array(PARTYMON_STRUCT.LENGTH)" filled in; offset
\* o of the source is index o + 1 here.
buildPartyMonOf(options) ==
  [i \in 1..PARTYMON_STRUCT.LENGTH |-> partyMonByte(options, i - 1)]

\* buildPartyMon({species, level, moves}): the call that leaves hp and maxHp out.
buildPartyMon(species, level, moves) ==
  buildPartyMonOf([species |-> species, level |-> level, moves |-> moves,
                   hp |-> Undefined, maxHp |-> Undefined])

(***************************************************************************)
(* Guest memory.  A write is a pair <<address, value>>; a handler's writes *)
(* are the sequence it issues, applied in order.                           *)
(***************************************************************************)
MaxSpriteLen == 2   \* bytes of a creature's sprite2bpp (784 in the program)

VramAddrs == VFRONTPIC_ADDR..(VFRONTPIC_ADDR + MaxSpriteLen)

RamAddrs ==
  {WRAM.wBattleResult, WRAM.wEnemyMonSpecies2, WRAM.wEnemyMonSpecies,
   WRAM.wEnemyMonLevel, WRAM.wIsInBattle, WRAM.wCurOpponent, WRAM.wCurEnemyLevel,
   WRAM.wPartyCount, WRAM.wPartySpecies, WRAM.wPartySpecies + 1,
   WRAM.wObtainedBadges, LCDC_ADDR}
  \cup (WRAM.wEnemyMonNick..(WRAM.wEnemyMonNick + NAME_LENGTH - 1))
  \cup (WRAM.wEnemyMonMoves..(WRAM.wEnemyMonMoves + 3))
  \cup (WRAM.wEnemyMonBaseStats..(WRAM.wEnemyMonBaseStats + 4))
  \cup (WRAM.wPartyMon1..(WRAM.wPartyMon1 + PARTYMON_STRUCT.LENGTH - 1))
  \cup (WRAM.wPartyMon1OT..(WRAM.wPartyMon1OT + NAME_LENGTH - 1))
  \cup (WRAM.wPartyMon1Nick..(WRAM.wPartyMon1Nick + NAME_LENGTH - 1))
  \cup VramAddrs

\* The ROM bytes findRetAddress can read: the entry of LoadMonFrontSprite onwards.
RomAddrs == LOAD_MON_FRONT_SPRITE_ADDR..(LOAD_MON_FRONT_SPRITE_ADDR + SCAN_LIMIT)

\* _emulator_read_mem
PortRead(m, rets, addr) ==
  IF addr \in RomAddrs THEN (IF addr \in rets THEN RET_OPCODE ELSE 0) ELSE m[addr]

\* _emulator_write_mem: stores the byte (the value as a u8).
PortWrite(m, addr, value) == [m EXCEPT ![addr] = U8(value)]

\* Guest memory after the writes ws in order: each cell holds what the last write
\* to it stored, or what it held.
ApplyWrites(m, ws) ==
  [a \in DOMAIN m |->
     LET idx == {i \in 1..Len(ws) : ws[i][1] = a} IN
       IF idx = {} THEN m[a]
       ELSE PortWrite(m, a, ws[CHOOSE i \in idx : \A j \in idx : j <= i][2])[a]]

\* writeMemoryBlock(startAddr, data): data[i] to startAddr + i, ascending.
BlockWrites(startAddr, data) == [i \in 1..Len(data) |-> <<startAddr + i - 1, data[i]>>]

\* setupTestBattle(emulator, setup): its writes, in program order.
setupTestBattleWrites(setup) ==
  <<  <<WRAM.wObtainedBadges, 128>>,                        \* 1 << 7
      <<WRAM.wPartyCount, 0>>,
      <<WRAM.wPartySpecies, 255>>,
      <<WRAM.wPartyCount, 1>>,
      <<WRAM.wPartySpecies, setup.playerPokemon.species>>,
      <<WRAM.wPartySpecies + 1, 255>> >>
  \o BlockWrites(WRAM.wPartyMon1,
                 buildPartyMon(setup.playerPokemon.species, setup.playerPokemon.level,
                               <<MOVES.TACKLE, MOVES.SCRATCH, MOVES.QUICK_ATTACK, 0>>))
  \o BlockWrites(WRAM.wPartyMon1Nick,
                 encodeString(ToUpperCase(setup.playerPokemon.name), NAME_LENGTH))
  \o BlockWrites(WRAM.wPartyMon1OT, encodeString(<<"A", "S", "H">>, NAME_LENGTH))
  \o << <<WRAM.wCurOpponent, setup.enemyPokemon.species>>,
        <<WRAM.wEnemyMonSpecies2, setup.enemyPokemon.species>> >>
  \o BlockWrites(WRAM.wEnemyMonNick,
                 encodeString(ToUpperCase(setup.enemyPokemon.name), NAME_LENGTH))

(***************************************************************************)
(* Creatures (GeneratedPokemon), as doGenerate() produces them: a name of  *)
(* at most 10 upper-case letters, level defaultLevel-2..defaultLevel+2,    *)
(* base stats 60..99, four moves of MOVE_LIST, a sprite.                   *)
(***************************************************************************)
NoPokemon == [name |-> <<>>, level |-> 0]

GeneratedPokemons ==
  { [ name |-> <<"Z", "A", "P", "P", "I", "X">>, level |-> 8,
      baseStats |-> [hp |-> 60, attack |-> 99, defense |-> 70, speed |-> 81,
                     special |-> 65],
      moves |-> <<33, 10, 52, 55>>,
      sprite2bpp |-> [i \in 1..MaxSpriteLen |-> 255] ],
    [ name |-> <<"C", "R", "Y", "S", "T", "A", "L", "I", "X", "A">>, level |-> 12,
      baseStats |-> [hp |-> 99, attack |-> 61, defense |-> 62, speed |-> 63,
                     special |-> 64],
      moves |-> <<98, 44, 22, 84>>,
      sprite2bpp |-> [i \in 1..MaxSpriteLen |-> (85 * i) % 256] ] }

(***************************************************************************)
(* EmulatorWrapper: the breakpoint registry and the frame loop.            *)
(***************************************************************************)
MaxFrames == 2      \* runFrame() calls made in a run
EarlyStep == 40000  \* ticks the Port advances before one of its early stops
MaxApiCalls == 2    \* addBreakpoint/removeBreakpoint/injectGeneratedPokemon calls in a run

\* Addresses a client of the wrapper registers test callbacks at (0x0100, 0x0200).
TestAddrs == {256, 512}

\* Addresses that can hold a breakpoint.
BpAddrs == {LOAD_MON_FRONT_SPRITE_ADDR} \cup TestAddrs

\* Instruction pointers the Port can stop at.
PortStops == BpAddrs

\* Callbacks: the controller's "inject" (onLoadMonFrontSpriteBreakpoint) and a
\* client's: "count" returns at once, "jump" sets the instruction pointer to the
\* other test address, "throw" throws.
TestCallbacks == {"count", "jump", "throw"}

JumpTarget(pc) == CHOOSE a \in TestAddrs : a # pc

NullAddr == -1      \* null, as a return address

\* wrapper.readMemory(addr)
readMemory(m, addr) == IF ~initialized THEN 0 ELSE PortRead(m, romRets, addr)

\* Guest memory after the wrapper.writeMemory() calls ws, in order.
writeMemoryAll(m, ws) == IF ~initialized THEN m ELSE ApplyWrites(m, ws)

\* An addBreakpoint() without the check for the module and the emulator.
addBreakpoint_Unguarded(bps, flags, addr, cb) ==
  [breakpoints |-> [bps EXCEPT ![addr] = cb], portBreaks |-> flags \cup {addr}]

\* wrapper.addBreakpoint(addr, cb) on registry bps and Port flags.
addBreakpoint(bps, flags, addr, cb) ==
  IF ~initialized THEN [breakpoints |-> bps, portBreaks |-> flags]
  ELSE [breakpoints |-> [bps EXCEPT ![addr] = cb], portBreaks |-> flags \cup {addr}]

\* A removeBreakpoint() that forgets the registry: the entry stays.
removeBreakpoint_KeepsEntry(bps, flags, addr) ==
  [breakpoints |-> bps,
   portBreaks |-> IF initialized THEN {a \in BpAddrs : bps[a] # "none"} ELSE flags]

\* A removeBreakpoint() that forgets the Port: no clear, no rebuild.
removeBreakpoint_KeepsFlag(bps, flags, addr) ==
  [breakpoints |-> [bps EXCEPT ![addr] = "none"], portBreaks |-> flags]

\* wrapper.removeBreakpoint(addr): delete the entry, clear the Port's flags and flag
\* the remaining entries again.
removeBreakpoint(bps, flags, addr) ==
  LET rest == [bps EXCEPT ![addr] = "none"] IN
    [breakpoints |-> rest,
     portBreaks |-> IF initialized THEN {a \in BpAddrs : rest[a] # "none"} ELSE flags]

\* wrapper.clearBreakpoints() on registry bps and Port flags.
clearBreakpoints(bps, flags) ==
  IF ~initialized THEN [breakpoints |-> bps, portBreaks |-> flags]
  ELSE [breakpoints |-> [a \in BpAddrs |-> "none"], portBreaks |-> {}]

\* wrapper.getPC() with the Port's instruction pointer at pc.
getPC(pc) == IF ~initialized THEN 0 ELSE pc

\* wrapper.setPC(addr): the Port's instruction pointer afterwards.
setPC(pc, addr) == IF ~initialized THEN pc ELSE addr

\* wrapper.setJoypad({[btn]: pressed}): the buttons held down afterwards.
setJoypad(joyp, btn, pressed) ==
  IF ~initialized THEN joyp
  ELSE IF pressed THEN joyp \cup {btn} ELSE joyp \ {btn}

\* A runFrame() whose target is one tick too far.
TargetTicks_OffByOne(cur) == cur + TICKS_PER_FRAME + 1

\* runFrame(): "const targetTicks = this.currentTicks + TICKS_PER_FRAME"
TargetTicks(cur) == cur + TICKS_PER_FRAME

(***************************************************************************)
(* BattleController: the injection callback.                               *)
(***************************************************************************)
\* A findRetAddress() that scans the window and has no fallback.
findRetAddress_NoFallback(m) ==
  LET window == {LOAD_MON_FRONT_SPRITE_ADDR + o : o \in 1..(SCAN_LIMIT - 1)}
      hits == {a \in window : readMemory(m, a) = RET_OPCODE}
  IN IF hits = {} THEN NullAddr ELSE CHOOSE a \in hits : \A b \in hits : a <= b

\* A findRetAddress() whose scan starts at the entry of the routine (offset 0).
findRetAddress_FromEntry(m) ==
  LET hits == {offset \in 0..(SCAN_LIMIT - 1) :
                 readMemory(m, LOAD_MON_FRONT_SPRITE_ADDR + offset) = RET_OPCODE}
  IN IF hits = {} THEN KNOWN_RET_ADDR
     ELSE LOAD_MON_FRONT_SPRITE_ADDR + (CHOOSE o \in hits : \A q \in hits : o <= q)

\* findRetAddress(): the first offset 1..199 from LoadMonFrontSprite whose byte is
\* RET (the for loop returns at its first hit), else KNOWN_RET_ADDR.
findRetAddress(m) ==
  LET hits == {offset \in 1..(SCAN_LIMIT - 1) :
                 readMemory(m, LOAD_MON_FRONT_SPRITE_ADDR + offset) = RET_OPCODE}
  IN IF hits = {} THEN KNOWN_RET_ADDR
     ELSE LOAD_MON_FRONT_SPRITE_ADDR + (CHOOSE o \in hits : \A q \in hits : o <= q)

\* skipCurrentFunction(): the instruction pointer it leaves.
skipCurrentFunction(m, pc) ==
  IF findRetAddress(m) # NullAddr THEN findRetAddress(m) ELSE pc

\* The creature-data writes of onLoadMonFrontSpriteBreakpoint(), in program order.
injectDataWrites(p) ==
  << <<WRAM.wEnemyMonSpecies2, POKEMON.MEW>>,
     <<WRAM.wEnemyMonSpecies, POKEMON.MEW>> >>
  \o BlockWrites(WRAM.wEnemyMonNick, encodeString(ToUpperCase(p.name), NAME_LENGTH))
  \o << <<WRAM.wEnemyMonLevel, p.level>>,
        <<WRAM.wCurEnemyLevel, p.level>> >>
  \o (IF "baseStats" \in DOMAIN p
      THEN << <<WRAM.wEnemyMonBaseStats, p.baseStats.hp>>,
              <<WRAM.wEnemyMonBaseStats + 1, p.baseStats.attack>>,
              <<WRAM.wEnemyMonBaseStats + 2, p.baseStats.defense>>,
              <<WRAM.wEnemyMonBaseStats + 3, p.baseStats.speed>>,
              <<WRAM.wEnemyMonBaseStats + 4, p.baseStats.special>> >>
      ELSE <<>>)
  \o (IF "moves" \in DOMAIN p /\ Len(p.moves) > 0
      THEN [i \in 1..4 |-> <<WRAM.wEnemyMonMoves + i - 1,
                             IF i <= Len(p.moves) THEN p.moves[i] ELSE 0>>]
      ELSE <<>>)

\* An injectSpriteSync() without the display hack: the sprite is written with the
\* display as it is.
injectSpriteSyncWrites_LcdLeftOn(m, p) ==
  IF ~("sprite2bpp" \in DOMAIN p /\ Len(p.sprite2bpp) > 0) THEN <<>>
  ELSE BlockWrites(VFRONTPIC_ADDR, p.sprite2bpp)

\* An injectSpriteSync() that turns the display off and never restores the register.
injectSpriteSyncWrites_NoRestore(m, p) ==
  IF ~("sprite2bpp" \in DOMAIN p /\ Len(p.sprite2bpp) > 0) THEN <<>>
  ELSE LET originalLcdc == readMemory(m, LCDC_ADDR)
           isLcdOn == originalLcdc >= 128
       IN (IF isLcdOn THEN << <<LCDC_ADDR, originalLcdc % 128>> >> ELSE <<>>)
          \o BlockWrites(VFRONTPIC_ADDR, p.sprite2bpp)

\* The writes of injectSpriteSync(pokemon) on memory m, in program order.
injectSpriteSyncWrites(m, p) ==
  IF ~("sprite2bpp" \in DOMAIN p /\ Len(p.sprite2bpp) > 0) THEN <<>>
  ELSE LET originalLcdc == readMemory(m, LCDC_ADDR)
           isLcdOn == originalLcdc >= 128                    \* (lcdc & 0x80) !== 0
       IN (IF isLcdOn THEN << <<LCDC_ADDR, originalLcdc % 128>> >> ELSE <<>>)  \* & 0x7F
          \o BlockWrites(VFRONTPIC_ADDR, p.sprite2bpp)
          \o (IF isLcdOn THEN << <<LCDC_ADDR, originalLcdc>> >> ELSE <<>>)

\* What a callback works on and leaves: guest memory, the instruction pointer, the
\* controller's injection flags, the registry and the Port's flags; whether it
\* threw; which path of onLoadMonFrontSpriteBreakpoint() it took.
CallbackContext ==
  [mem |-> mem, pc |-> portPC, injectionPending |-> injectionPending,
   breakpointInstalled |-> breakpointInstalled, breakpoints |-> breakpoints,
   portBreaks |-> portBreaks, threw |-> FALSE, path |-> "n/a"]

\* An onLoadMonFrontSpriteBreakpoint() that injects whether or not an injection is
\* pending.
injectOrSkip_AlwaysInject(c) ==
  LET m1 == writeMemoryAll(c.mem, injectDataWrites(currentPokemon))
      m2 == writeMemoryAll(m1, injectSpriteSyncWrites(m1, currentPokemon))
      rb == removeBreakpoint(c.breakpoints, c.portBreaks, LOAD_MON_FRONT_SPRITE_ADDR)
  IN [mem |-> m2,
      pc |-> skipCurrentFunction(m2, c.pc),
      injectionPending |-> FALSE,
      breakpointInstalled |-> FALSE,
      breakpoints |-> rb.breakpoints,
      portBreaks |-> rb.portBreaks,
      threw |-> FALSE,
      path |-> "inject"]

\* onLoadMonFrontSpriteBreakpoint() past its battle check: skip when nothing is
\* pending, else inject, skip the routine and remove the breakpoint.
injectOrSkip(c) ==
  IF ~c.injectionPending \/ currentPokemon = NoPokemon
  THEN [c EXCEPT !.pc = skipCurrentFunction(c.mem, c.pc), !.path = "skip"]
  ELSE LET m1 == writeMemoryAll(c.mem, injectDataWrites(currentPokemon))
           m2 == writeMemoryAll(m1, injectSpriteSyncWrites(m1, currentPokemon))
           rb == removeBreakpoint(c.breakpoints, c.portBreaks, LOAD_MON_FRONT_SPRITE_ADDR)
       IN [mem |-> m2,
           pc |-> skipCurrentFunction(m2, c.pc),
           injectionPending |-> FALSE,
           breakpointInstalled |-> FALSE,
           breakpoints |-> rb.breakpoints,
           portBreaks |-> rb.portBreaks,
           threw |-> FALSE,
           path |-> "inject"]

\* An onLoadMonFrontSpriteBreakpoint() without the battle check.
onLoadMonFrontSpriteBreakpoint_NoBattleCheck(c) == injectOrSkip(c)

\* onLoadMonFrontSpriteBreakpoint(): outside a battle the hit is a false positive
\* and the callback returns at once.
onLoadMonFrontSpriteBreakpoint(c) ==
  IF readMemory(c.mem, WRAM.wIsInBattle) = 0
  THEN [c EXCEPT !.path = "false_positive"]
  ELSE injectOrSkip(c)

\* The callback cb run on context c.
RunCallback(cb, c) ==
  IF cb = "inject" THEN onLoadMonFrontSpriteBreakpoint(c)
  ELSE IF cb = "jump" THEN [c EXCEPT !.pc = JumpTarget(c.pc)]
  ELSE IF cb = "throw" THEN [c EXCEPT !.threw = TRUE]
  ELSE c

\* An installInjectionBreakpoint() that sets its flag and registers nothing.
installInjectionBreakpoint_FlagOnly(bps, flags, installed) ==
  [breakpoints |-> bps, portBreaks |-> flags, breakpointInstalled |-> TRUE]

\* installInjectionBreakpoint() on registry bps, Port flags and the installed flag.
installInjectionBreakpoint(bps, flags, installed) ==
  IF installed
  THEN [breakpoints |-> bps, portBreaks |-> flags, breakpointInstalled |-> installed]
  ELSE LET ab == addBreakpoint(bps, flags, LOAD_MON_FRONT_SPRITE_ADDR, "inject") IN
         [breakpoints |-> ab.breakpoints, portBreaks |-> ab.portBreaks,
          breakpointInstalled |-> TRUE]

\* setupTestBattleMode(): the BattleSetup it passes to setupTestBattle().
TestBattleSetup(p) ==
  [ playerPokemon |-> [species |-> POKEMON.PIKACHU, level |-> 50,
                       name |-> <<"P", "L", "A", "Y", "E", "R">>],
    enemyPokemon |-> [species |-> POKEMON.RHYDON, level |-> p.level, name |-> p.name] ]

\* injectGeneratedPokemon(pokemon), called by tryInjectFirstPokemon() and by the
\* regenerate handler, both after the wrapper's init().
InjectGeneratedPokemon(p) ==
  /\ rfpc = "idle"
  /\ nApi < MaxApiCalls
  /\ initialized
  /\ currentPokemon' = p
  /\ gameReady' = TRUE
  /\ mem' = writeMemoryAll(mem, setupTestBattleWrites(TestBattleSetup(p)))
  /\ state' = "idle"
  /\ injectionPending' = TRUE
  /\ LET ib == installInjectionBreakpoint(breakpoints, portBreaks, breakpointInstalled) IN
       /\ breakpoints' = ib.breakpoints
       /\ portBreaks' = ib.portBreaks
       /\ breakpointInstalled' = ib.breakpointInstalled
  /\ armed' = IF breakpointInstalled THEN armed
              ELSE armed \cup {LOAD_MON_FRONT_SPRITE_ADDR}
  /\ fired' = IF breakpointInstalled THEN fired
              ELSE fired \ {LOAD_MON_FRONT_SPRITE_ADDR}
  /\ nApi' = nApi + 1
  /\ lastCall' = "injectGeneratedPokemon"
  /\ UNCHANGED <<portTicks, portPC, romRets, portJoyp, initialized, currentTicks, rfpc,
                 targetTicks, frameStart, nFrames, raised, lastDispatch, earlyStops>>

(***************************************************************************)
(* The wrapper's operations.                                               *)
(***************************************************************************)
\* What an update() call did, before any update() call: no poll, no state-change
\* notification, no battle-ended event.
NoUpdate == [polled |-> FALSE, notified |-> <<>>, battleEnds |-> <<>>]

\* ROM contents: the offsets from LoadMonFrontSprite that hold RET.
RetOffsetChoices == {{}, {0, 200}, {5, 60}}

\* The display-control register at start: display on (0x91), display off (0x11).
LcdcChoices == {145, 17}

\* Values the guest stores to wIsInBattle: 0 = no battle, 1 = wild battle.
InBattleValues == {0, 1}

\* The state after construction of the wrapper and the controller, the guest at its
\* entry point 0x0100, for each ROM and display state considered.
CtlInit ==
  /\ portTicks = 0
  /\ portPC = 256
  /\ portBreaks = {}
  /\ \E l \in LcdcChoices : mem = [a \in RamAddrs |-> IF a = LCDC_ADDR THEN l ELSE 0]
  /\ \E S \in RetOffsetChoices : romRets = {LOAD_MON_FRONT_SPRITE_ADDR + o : o \in S}
  /\ portJoyp = {}
  /\ initialized = FALSE
  /\ currentTicks = 0
  /\ breakpoints = [a \in BpAddrs |-> "none"]
  /\ rfpc = "idle"
  /\ targetTicks = 0
  /\ frameStart = 0
  /\ nFrames = 0
  /\ raised = FALSE
  /\ fired = {}
  /\ armed = {}
  /\ earlyStops = FALSE
  /\ nApi = 0
  /\ lastCall = "none"
  /\ lastDispatch = [kind |-> "none", addr |-> 0, path |-> "n/a", progress |-> FALSE,
                     left |-> FALSE]
  /\ state = "waiting_for_game"
  /\ gameReady = FALSE
  /\ currentPokemon = NoPokemon
  /\ injectionPending = FALSE
  /\ breakpointInstalled = FALSE
  /\ lastBattleState = 0
  /\ battleCount = 0
  /\ framesSinceLastCheck = 0
  /\ prepareCalls = {}
  /\ lastUpdate = NoUpdate
  /\ events = <<>>

\* The state after construction with a ROM that holds no RET near LoadMonFrontSprite
\* and the display registers zero.
EmuParked ==
  /\ portTicks = 0
  /\ portPC = 256
  /\ portBreaks = {}
  /\ mem = [a \in RamAddrs |-> 0]
  /\ romRets = {}
  /\ portJoyp = {}
  /\ initialized = FALSE
  /\ currentTicks = 0
  /\ breakpoints = [a \in BpAddrs |-> "none"]
  /\ rfpc = "idle"
  /\ targetTicks = 0
  /\ frameStart = 0
  /\ nFrames = 0
  /\ raised = FALSE
  /\ fired = {}
  /\ armed = {}
  /\ earlyStops = FALSE
  /\ nApi = 0
  /\ lastCall = "none"
  /\ lastDispatch = [kind |-> "none", addr |-> 0, path |-> "n/a", progress |-> FALSE,
                     left |-> FALSE]
  /\ state = "waiting_for_game"
  /\ gameReady = FALSE
  /\ currentPokemon = NoPokemon
  /\ injectionPending = FALSE
  /\ breakpointInstalled = FALSE
  /\ lastBattleState = 0
  /\ battleCount = 0
  /\ framesSinceLastCheck = 0
  /\ prepareCalls = {}
  /\ lastUpdate = NoUpdate
  /\ events = <<>>

\* init(romData): the module and the emulator instance exist from here on.
EmulatorInit ==
  /\ ~initialized
  /\ rfpc = "idle"
  /\ initialized' = TRUE
  /\ UNCHANGED <<portVars, ctlVars, currentTicks, breakpoints, rfpc, targetTicks,
                 frameStart, nFrames, raised, fired, armed, earlyStops, lastDispatch,
                 nApi, lastCall>>

\* A client calls addBreakpoint(a, cb).
AddBreakpoint(a, cb) ==
  /\ rfpc = "idle"
  /\ nApi < MaxApiCalls
  /\ nApi' = nApi + 1
  /\ lastCall' = "addBreakpoint"
  /\ LET ab == addBreakpoint(breakpoints, portBreaks, a, cb) IN
       /\ breakpoints' = ab.breakpoints
       /\ portBreaks' = ab.portBreaks
  /\ armed' = IF initialized THEN armed \cup {a} ELSE armed
  /\ fired' = IF initialized THEN fired \ {a} ELSE fired
  /\ UNCHANGED <<portTicks, portPC, mem, romRets, portJoyp, ctlVars, initialized, currentTicks,
                 rfpc, targetTicks, frameStart, nFrames, raised, earlyStops,
                 lastDispatch>>

\* A client calls removeBreakpoint(a).
RemoveBreakpoint(a) ==
  /\ rfpc = "idle"
  /\ nApi < MaxApiCalls
  /\ nApi' = nApi + 1
  /\ lastCall' = "removeBreakpoint"
  /\ LET rb == removeBreakpoint(breakpoints, portBreaks, a) IN
       /\ breakpoints' = rb.breakpoints
       /\ portBreaks' = rb.portBreaks
  /\ armed' = armed \ {a}
  /\ UNCHANGED <<portTicks, portPC, mem, romRets, portJoyp, ctlVars, initialized, currentTicks,
                 rfpc, targetTicks, frameStart, nFrames, raised, fired, earlyStops,
                 lastDispatch>>

\* What a call that changes neither the registry nor the wrapper's fields leaves
\* alone.
WrapperKept ==
  UNCHANGED <<portTicks, portBreaks, romRets, ctlVars, initialized, currentTicks,
              breakpoints, rfpc, targetTicks, frameStart, nFrames, raised, fired,
              armed, earlyStops, lastDispatch>>

\* A client calls clearBreakpoints().
ClearBreakpoints ==
  /\ rfpc = "idle"
  /\ nApi < MaxApiCalls
  /\ nApi' = nApi + 1
  /\ lastCall' = "clearBreakpoints"
  /\ LET cb == clearBreakpoints(breakpoints, portBreaks) IN
       /\ breakpoints' = cb.breakpoints
       /\ portBreaks' = cb.portBreaks
  /\ armed' = IF initialized THEN {} ELSE armed
  /\ UNCHANGED <<portTicks, portPC, mem, romRets, portJoyp, ctlVars, initialized,
                 currentTicks, rfpc, targetTicks, frameStart, nFrames, raised, fired,
                 earlyStops, lastDispatch>>

\* A client calls writeMemory(a, v).
WriteMemory(a, v) ==
  /\ rfpc = "idle"
  /\ nApi < MaxApiCalls
  /\ nApi' = nApi + 1
  /\ lastCall' = "writeMemory"
  /\ mem' = writeMemoryAll(mem, << <<a, v>> >>)
  /\ UNCHANGED <<portPC, portJoyp>>
  /\ WrapperKept

\* A client calls writeMemoryBlock(a, data).
WriteMemoryBlock(a, data) ==
  /\ rfpc = "idle"
  /\ nApi < MaxApiCalls
  /\ nApi' = nApi + 1
  /\ lastCall' = "writeMemoryBlock"
  /\ mem' = writeMemoryAll(mem, BlockWrites(a, data))
  /\ UNCHANGED <<portPC, portJoyp>>
  /\ WrapperKept

\* A client calls setPC(a).
SetPC(a) ==
  /\ rfpc = "idle"
  /\ nApi < MaxApiCalls
  /\ nApi' = nApi + 1
  /\ lastCall' = "setPC"
  /\ portPC' = setPC(portPC, a)
  /\ UNCHANGED <<mem, portJoyp>>
  /\ WrapperKept

\* The key handlers call setJoypad({[btn]: pressed}).
SetJoypad(btn, pressed) ==
  /\ rfpc = "idle"
  /\ nApi < MaxApiCalls
  /\ nApi' = nApi + 1
  /\ lastCall' = "setJoypad"
  /\ portJoyp' = setJoypad(portJoyp, btn, pressed)
  /\ UNCHANGED <<mem, portPC>>
  /\ WrapperKept

\* A client calls destroy(): the emulator instance is deleted and the registry
\* cleared; this.currentTicks is kept.  An init() after it gets a new instance, in
\* its start state.
Destroy ==
  /\ rfpc = "idle"
  /\ nApi < MaxApiCalls
  /\ nApi' = nApi + 1
  /\ lastCall' = "destroy"
  /\ initialized' = FALSE
  /\ breakpoints' = [a \in BpAddrs |-> "none"]
  /\ armed' = {}
  /\ portTicks' = 0
  /\ portPC' = 256
  /\ portBreaks' = {}
  /\ mem' = [a \in RamAddrs |-> 0]
  /\ portJoyp' = {}
  /\ UNCHANGED <<romRets, ctlVars, currentTicks, rfpc, targetTicks, frameStart,
                 nFrames, raised, fired, earlyStops, lastDispatch>>

\* gameLoop() calls runFrame(): the part before the loop.  An exception out of
\* runFrame() ends gameLoop() before it schedules the next frame.
RunFrameBegin ==
  /\ rfpc = "idle"
  /\ ~raised
  /\ nFrames < MaxFrames
  /\ nFrames' = nFrames + 1
  /\ IF ~initialized
     THEN UNCHANGED <<targetTicks, frameStart, rfpc, earlyStops>>
     ELSE /\ targetTicks' = TargetTicks(currentTicks)
          /\ frameStart' = currentTicks
          /\ earlyStops' = FALSE
          /\ rfpc' = IF currentTicks < targetTicks' THEN "run" ELSE "idle"
  /\ UNCHANGED <<portVars, ctlVars, initialized, currentTicks, breakpoints, raised,
                 fired, armed, lastDispatch, nApi, lastCall>>

\* The tick counts _emulator_run_until_f64(target) can leave the Port at: the
\* target, or an earlier stop (a breakpoint, another event) with or without progress.
PortTickChoices(cur, target) ==
  IF cur >= target THEN {cur}
  ELSE {target} \cup {t \in {cur, cur + EarlyStep} : t < target}

\* runFrame(): "_emulator_run_until_f64(emulator, targetTicks)".  The guest runs:
\* with progress it may be anywhere and may have changed wIsInBattle; a stop
\* without progress leaves the instruction pointer and memory as they were.
PortRun ==
  /\ rfpc = "run"
  /\ \E t \in PortTickChoices(portTicks, targetTicks), pc \in PortStops,
        b \in InBattleValues :
       /\ portTicks' = t
       /\ IF t = portTicks
          THEN UNCHANGED <<portPC, mem>>
          ELSE /\ portPC' = pc
               /\ mem' = [mem EXCEPT ![WRAM.wIsInBattle] = b]
  /\ rfpc' = "check"
  /\ UNCHANGED <<portBreaks, romRets, portJoyp, ctlVars, initialized, currentTicks, breakpoints,
                 targetTicks, frameStart, nFrames, raised, fired, armed, earlyStops,
                 lastDispatch, nApi, lastCall>>

\* A runFrame() that never finds a callback for the halt address.
CallbackAt_Never(bps, pc) == "none"

\* runFrame(): "this.breakpoints.get(pc)", "none" for undefined.
CallbackAt(bps, pc) == IF pc \in BpAddrs THEN bps[pc] ELSE "none"

\* runFrame(): the loop body after the Port call, and the loop test.
Dispatch ==
  /\ rfpc = "check"
  /\ LET actualTicks == portTicks
         pc == portPC
         early == actualTicks < targetTicks
         cb == CallbackAt(breakpoints, pc)
         called == early /\ cb # "none"
         r == IF called THEN RunCallback(cb, CallbackContext) ELSE CallbackContext
         threw == called /\ r.threw
         pcSame == called /\ ~r.threw /\ r.pc = pc
         stall == early /\ cb = "none" /\ actualTicks = currentTicks
         leaves == threw \/ pcSame \/ stall \/ ~early
     IN
       /\ mem' = r.mem
       /\ portPC' = r.pc
       /\ injectionPending' = r.injectionPending
       /\ breakpointInstalled' = r.breakpointInstalled
       /\ breakpoints' = r.breakpoints
       /\ portBreaks' = r.portBreaks
       /\ raised' = (raised \/ threw)
       /\ currentTicks' = IF threw \/ stall THEN currentTicks ELSE actualTicks
       /\ rfpc' = IF leaves THEN "idle" ELSE "run"
       /\ fired' = IF called THEN fired \cup {pc} ELSE fired
       /\ armed' = IF r.path = "inject" THEN armed \ {LOAD_MON_FRONT_SPRITE_ADDR}
                   ELSE armed
       /\ earlyStops' = (earlyStops \/ early)
       /\ lastDispatch' =
            [kind |-> IF ~early THEN "complete"
                      ELSE IF called THEN cb
                      ELSE IF stall THEN "stall" ELSE "stopped",
             addr |-> pc,
             path |-> r.path,
             progress |-> actualTicks > currentTicks,
             left |-> leaves]
  /\ UNCHANGED <<portTicks, romRets, portJoyp, initialized, targetTicks, frameStart, nFrames,
                 state, gameReady, currentPokemon, nApi, lastCall>>

\* The wrapper driven by gameLoop(), a client of the breakpoint API and the guest.
EmuNext ==
  \/ EmulatorInit /\ UNCHANGED <<genVars, pollVars, lastDoGenerate, partyMon, pageVars, encoded>>
  \/ \E a \in TestAddrs, cb \in TestCallbacks : AddBreakpoint(a, cb) /\ UNCHANGED <<genVars, pollVars, lastDoGenerate, partyMon, pageVars, encoded>>
  \/ \E a \in TestAddrs : RemoveBreakpoint(a) /\ UNCHANGED <<genVars, pollVars, lastDoGenerate, partyMon, pageVars, encoded>>
  \/ RunFrameBegin /\ UNCHANGED <<genVars, pollVars, lastDoGenerate, partyMon, pageVars, encoded>>
  \/ PortRun /\ UNCHANGED <<genVars, pollVars, lastDoGenerate, partyMon, pageVars, encoded>>
  \/ Dispatch /\ UNCHANGED <<genVars, pollVars, lastDoGenerate, partyMon, pageVars, encoded>>

EmuInit == GenInit /\ EmuParked

SpecEmu == EmuInit /\ [][EmuNext]_vars

\* gameLoop() runs whenever the browser schedules it, and within runFrame() the
\* Port call and the loop body follow each other without waiting.
SpecEmuFair ==
  /\ SpecEmu
  /\ WF_vars(PortRun /\ UNCHANGED <<genVars, pollVars, lastDoGenerate, partyMon, pageVars, encoded>>)
  /\ WF_vars(Dispatch /\ UNCHANGED <<genVars, pollVars, lastDoGenerate, partyMon, pageVars, encoded>>)

\* The cells and bytes a client of the wrapper writes, and the buttons it presses.
ClientWriteAddr == WRAM.wCurOpponent
ClientBlock == <<128, 80>>
Buttons == {"a"}

\* The wrapper with a client of its whole API: the calls are made whether or not
\* init() has run, and after destroy().
ApiNext ==
  \/ EmulatorInit /\ UNCHANGED <<genVars, pollVars, lastDoGenerate, partyMon, pageVars, encoded>>
  \/ Destroy /\ UNCHANGED <<genVars, pollVars, lastDoGenerate, partyMon, pageVars, encoded>>
  \/ \E a \in TestAddrs : AddBreakpoint(a, "count") /\ UNCHANGED <<genVars, pollVars, lastDoGenerate, partyMon, pageVars, encoded>>
  \/ \E a \in TestAddrs : RemoveBreakpoint(a) /\ UNCHANGED <<genVars, pollVars, lastDoGenerate, partyMon, pageVars, encoded>>
  \/ ClearBreakpoints /\ UNCHANGED <<genVars, pollVars, lastDoGenerate, partyMon, pageVars, encoded>>
  \/ WriteMemory(ClientWriteAddr, POKEMON.MEW) /\ UNCHANGED <<genVars, pollVars, lastDoGenerate, partyMon, pageVars, encoded>>
  \/ WriteMemoryBlock(WRAM.wEnemyMonNick, ClientBlock) /\ UNCHANGED <<genVars, pollVars, lastDoGenerate, partyMon, pageVars, encoded>>
  \/ \E a \in TestAddrs : SetPC(a) /\ UNCHANGED <<genVars, pollVars, lastDoGenerate, partyMon, pageVars, encoded>>
  \/ \E b \in Buttons, pressed \in BOOLEAN : SetJoypad(b, pressed) /\ UNCHANGED <<genVars, pollVars, lastDoGenerate, partyMon, pageVars, encoded>>
  \/ RunFrameBegin /\ UNCHANGED <<genVars, pollVars, lastDoGenerate, partyMon, pageVars, encoded>>
  \/ PortRun /\ UNCHANGED <<genVars, pollVars, lastDoGenerate, partyMon, pageVars, encoded>>
  \/ Dispatch /\ UNCHANGED <<genVars, pollVars, lastDoGenerate, partyMon, pageVars, encoded>>

SpecApi == EmuInit /\ [][ApiNext]_vars

\* The controller's injection driven by gameLoop(), the start-up/regenerate paths
\* and the guest.
CtlNext ==
  \/ EmulatorInit /\ UNCHANGED <<genVars, pollVars, lastDoGenerate, partyMon, pageVars, encoded>>
  \/ \E p \in GeneratedPokemons : InjectGeneratedPokemon(p) /\ UNCHANGED <<genVars, pollVars, lastDoGenerate, partyMon, pageVars, encoded>>
  \/ RunFrameBegin /\ UNCHANGED <<genVars, pollVars, lastDoGenerate, partyMon, pageVars, encoded>>
  \/ PortRun /\ UNCHANGED <<genVars, pollVars, lastDoGenerate, partyMon, pageVars, encoded>>
  \/ Dispatch /\ UNCHANGED <<genVars, pollVars, lastDoGenerate, partyMon, pageVars, encoded>>

InjectInit == GenInit /\ CtlInit

SpecCtl == InjectInit /\ [][CtlNext]_vars

\* ROM contents for the callback on its own: RET at any of the offsets at the two
\* ends of the scan window and just outside it.
RetEdgeOffsets == {0, 1, 2, 199, 200}

\* runFrame() has just got the Port back, halted before the target at
\* LoadMonFrontSprite with the controller's callback registered there.  The inputs
\* of the callback range over every ROM of RetEdgeOffsets, both display states,
\* wIsInBattle, injectionPending and currentPokemon (null included): the callback is
\* taken as a handler of its own, whatever its callers keep true of these fields.
HitInit ==
  /\ GenInit
  /\ portTicks = EarlyStep
  /\ portPC = LOAD_MON_FRONT_SPRITE_ADDR
  /\ portBreaks = {LOAD_MON_FRONT_SPRITE_ADDR}
  /\ \E l \in LcdcChoices, b \in InBattleValues :
        mem = [a \in RamAddrs |-> IF a = LCDC_ADDR THEN l
                                  ELSE IF a = WRAM.wIsInBattle THEN b ELSE 0]
  /\ \E S \in SUBSET RetEdgeOffsets :
        romRets = {LOAD_MON_FRONT_SPRITE_ADDR + o : o \in S}
  /\ portJoyp = {}
  /\ initialized = TRUE
  /\ currentTicks = 0
  /\ breakpoints = [a \in BpAddrs |-> IF a = LOAD_MON_FRONT_SPRITE_ADDR THEN "inject"
                                       ELSE "none"]
  /\ rfpc = "check"
  /\ targetTicks = TargetTicks(0)
  /\ frameStart = 0
  /\ nFrames = 1
  /\ raised = FALSE
  /\ fired = {}
  /\ armed = {LOAD_MON_FRONT_SPRITE_ADDR}
  /\ earlyStops = FALSE
  /\ nApi = 1
  /\ lastCall = "injectGeneratedPokemon"
  /\ lastDispatch = [kind |-> "none", addr |-> 0, path |-> "n/a", progress |-> FALSE,
                     left |-> FALSE]
  /\ state = "idle"
  /\ gameReady = TRUE
  /\ currentPokemon \in GeneratedPokemons \cup {NoPokemon}
  /\ injectionPending \in BOOLEAN
  /\ breakpointInstalled = TRUE
  /\ lastBattleState = 0
  /\ battleCount = 0
  /\ framesSinceLastCheck = 0
  /\ prepareCalls = {}
  /\ lastUpdate = NoUpdate
  /\ events = <<>>

\* The rest of the frame from the halt on: the loop body, and the Port again.
HitNext ==
  \/ Dispatch /\ UNCHANGED <<genVars, pollVars, lastDoGenerate, partyMon, pageVars, encoded>>
  \/ PortRun /\ UNCHANGED <<genVars, pollVars, lastDoGenerate, partyMon, pageVars, encoded>>

SpecHit == HitInit /\ [][HitNext]_vars

(***************************************************************************)
(* BattleController.update(): the battle poll gameLoop() makes after each  *)
(* frame, once the first creature has been injected.                       *)
(***************************************************************************)
POLL_INTERVAL == 10 \* update() reads wIsInBattle on every 10th call
MaxBattles == 2     \* battles counted in a run

\* The values the guest stores to wIsInBattle in a battle: 1 = wild, 2 = trainer.
BattleKinds == {1, 2}

\* The bytes the guest leaves in wBattleResult when a battle ends.
BattleResultValues == {0, 1, 2, 3, 4, 255}

\* The creature doGenerate() of task t resolves with.
PokemonOfTask(t) ==
  CHOOSE p \in GeneratedPokemons : p.level = (IF t % 2 = 1 THEN 8 ELSE 12)

\* setState(next) on the controller's state st.state and the notifications
\* st.notified sent so far in the running handler: the listener hears of changes only.
setState(st, next) ==
  IF st.state # next THEN [state |-> next, notified |-> Append(st.notified, next)]
  ELSE st

\* update(): "resultMap[result]", "undefined" for a key the map does not hold.
resultMap(result) ==
  CASE result = 0 -> "win"
    [] result = 1 -> "lose"
    [] result = 2 -> "draw"
    [] result = 3 -> "ran"
    [] OTHER -> "undefined"

\* An outcome without the default: "resultMap[result]" alone.
battleOutcome_NoDefault(result) == resultMap(result)

\* update(): "resultMap[result] ?? 'win'"
battleOutcome(result) ==
  IF resultMap(result) = "undefined" THEN "win" ELSE resultMap(result)

\* A battle-start test that forgets the previous poll.
BattleStarted_NoEdge(cur, last) == cur # 0

\* A battle-start test that fires on every change to a non-zero value.
BattleStarted_OnChange(cur, last) == cur # 0 /\ cur # last

\* update(): "currentBattleState !== 0 && this.lastBattleState === 0"
BattleStarted(cur, last) == cur # 0 /\ last = 0

\* A battle-end test that forgets the previous poll.
BattleEnded_NoEdge(cur, last) == cur = 0

\* update(): "currentBattleState === 0 && this.lastBattleState !== 0"
BattleEnded(cur, last) == cur = 0 /\ last # 0

\* options.onStateChange(state), once for each notification of setState().
stateChanged(notified) ==
  [i \in 1..Len(notified) |-> [ev |-> "stateChanged", arg |-> notified[i]]]

\* options.onBattleEnd(outcome)
battleEnded(outcome) == [ev |-> "battleEnded", arg |-> outcome]

\* options.onPokemonGenerated(pokemon)
creatureReady(p) == [ev |-> "creatureReady", arg |-> p.name]

\* The listeners' calls of prepareNextPokemon() with creature p at hand, from the
\* controller's state s: "onPokemonGenerated?.(pokemon); ...; this.setState('idle')".
preparedEvents(p, s) ==
  <<creatureReady(p)>> \o stateChanged(setState([state |-> s, notified |-> <<>>], "idle").notified)

\* A battle end that reports the battle only after preparing the next creature.
battleEndEvents_PrepareFirst(outcome, prepared) == prepared \o <<battleEnded(outcome)>>

\* update() at a battle end: "this.options.onBattleEnd?.(...)" and then the
\* listeners' calls of "this.prepareNextPokemon()" up to its return or its await.
battleEndEvents(outcome, prepared) == <<battleEnded(outcome)>> \o prepared

\* What update() leaves alone unless prepareNextPokemon() has a creature at hand.
NothingPrepared ==
  UNCHANGED <<currentPokemon, mem, injectionPending, breakpoints, portBreaks,
              breakpointInstalled, armed, fired>>

\* prepareNextPokemon(), with creature p at hand and the controller's state st:
\* "this.currentPokemon = pokemon; this.setupTestBattleMode(); this.setState('idle');
\* this.injectionPending = true; this.installInjectionBreakpoint()".
PrepareCurrent(p, st) ==
  /\ currentPokemon' = p
  /\ mem' = writeMemoryAll(mem, setupTestBattleWrites(TestBattleSetup(p)))
  /\ state' = setState(st, "idle").state
  /\ injectionPending' = TRUE
  /\ LET ib == installInjectionBreakpoint(breakpoints, portBreaks, breakpointInstalled) IN
       /\ breakpoints' = ib.breakpoints
       /\ portBreaks' = ib.portBreaks
       /\ breakpointInstalled' = ib.breakpointInstalled
  /\ armed' = IF breakpointInstalled \/ ~initialized THEN armed
              ELSE armed \cup {LOAD_MON_FRONT_SPRITE_ADDR}
  /\ fired' = IF breakpointInstalled \/ ~initialized THEN fired
              ELSE fired \ {LOAD_MON_FRONT_SPRITE_ADDR}

\* update(): a poll that sees neither a battle start nor a battle end.
PollQuiet(st) ==
  /\ state' = st.state
  /\ lastUpdate' = [polled |-> TRUE, notified |-> st.notified, battleEnds |-> <<>>]
  /\ events' = events \o stateChanged(st.notified)
  /\ NothingPrepared
  /\ UNCHANGED <<genVars, battleCount, prepareCalls>>

\* update(): the poll that sees a battle start: setState('in_battle') and
\* generationService.prefetch().
PollBattleStart(st) ==
  /\ state' = setState(st, "in_battle").state
  /\ lastUpdate' = [polled |-> TRUE, notified |-> setState(st, "in_battle").notified,
                    battleEnds |-> <<>>]
  /\ events' = stateChanged(setState(st, "in_battle").notified)
  /\ Prefetch
  /\ NothingPrepared
  /\ UNCHANGED <<battleCount, prepareCalls>>

\* update(): the poll that sees a battle end: the count, the battle-ended event and
\* prepareNextPokemon() up to its return or its await.
PollBattleEnd(st) ==
  /\ battleCount < MaxBattles
  /\ battleCount' = battleCount + 1
  /\ LET outcome == battleOutcome(readMemory(mem, WRAM.wBattleResult)) IN
       IF Len(queue) > 0                                   \* generationService.isReady()
       THEN /\ GetNextIfReady
            /\ PrepareCurrent(PokemonOfTask(Head(queue)), st)
            /\ lastUpdate' = [polled |-> TRUE, notified |-> setState(st, "idle").notified,
                              battleEnds |-> <<outcome>>]
            /\ events' = events \o stateChanged(st.notified)
                 \o battleEndEvents(outcome,
                                    preparedEvents(PokemonOfTask(Head(queue)), st.state))
            /\ UNCHANGED prepareCalls
       ELSE /\ state' = setState(st, "waiting_for_generation").state
            /\ lastUpdate' = [polled |-> TRUE,
                              notified |-> setState(st, "waiting_for_generation").notified,
                              battleEnds |-> <<outcome>>]
            /\ events' = events \o stateChanged(st.notified)
                 \o battleEndEvents(outcome,
                      stateChanged(setState([state |-> st.state, notified |-> <<>>],
                                            "waiting_for_generation").notified))
            /\ GetNext
            /\ prepareCalls' = prepareCalls \cup {nCalls + 1}
            /\ NothingPrepared

\* update(), called by gameLoop() after runFrame().
Update ==
  /\ rfpc = "idle"
  /\ IF framesSinceLastCheck + 1 < POLL_INTERVAL
     THEN /\ framesSinceLastCheck' = framesSinceLastCheck + 1
          /\ lastUpdate' = NoUpdate
          /\ NothingPrepared
          /\ UNCHANGED <<genVars, state, gameReady, lastBattleState, battleCount,
                         prepareCalls, events>>
     ELSE LET st == IF gameReady THEN [state |-> state, notified |-> <<>>]
                    ELSE setState([state |-> state, notified |-> <<>>], "idle")
              currentBattleState == readMemory(mem, WRAM.wIsInBattle)
          IN /\ framesSinceLastCheck' = 0
             /\ gameReady' = TRUE
             /\ IF BattleStarted(currentBattleState, lastBattleState)
                THEN PollBattleStart(st)
                ELSE IF BattleEnded(currentBattleState, lastBattleState)
                THEN PollBattleEnd(st)
                ELSE PollQuiet(st)
             /\ lastBattleState' = currentBattleState
  /\ UNCHANGED <<portTicks, portPC, romRets, portJoyp, initialized, currentTicks, rfpc,
                 targetTicks, frameStart, nFrames, raised, lastDispatch, earlyStops,
                 nApi, lastCall>>

\* The calls among those resumed by task t that prepareNextPokemon() is awaiting.
PrepareResumed(t) == Range(Resumed(t)) \cap prepareCalls

\* doGenerate() of task t resolves; a prepareNextPokemon() awaiting it goes on with
\* the creature.
PollTaskComplete(t) ==
  /\ TaskComplete(t)
  /\ IF PrepareResumed(t) # {}
     THEN /\ PrepareCurrent(PokemonOfTask(t), [state |-> state, notified |-> <<>>])
          /\ events' = events \o preparedEvents(PokemonOfTask(t), state)
     ELSE NothingPrepared /\ UNCHANGED <<state, events>>
  /\ prepareCalls' = prepareCalls \ PrepareResumed(t)
  /\ UNCHANGED <<portTicks, portPC, romRets, portJoyp, initialized, currentTicks, rfpc,
                 targetTicks, frameStart, nFrames, raised, lastDispatch, earlyStops,
                 nApi, lastCall, gameReady, lastBattleState,
                 battleCount,
                 framesSinceLastCheck,
                 lastUpdate>>

\* doGenerate() of task t rejects; a prepareNextPokemon() awaiting it catches the
\* error and sets the state 'idle'.
PollTaskFail(t) ==
  /\ TaskFail(t)
  /\ state' = IF PrepareResumed(t) # {} THEN "idle" ELSE state
  /\ events' = IF PrepareResumed(t) # {}
               THEN events \o stateChanged(setState([state |-> state, notified |-> <<>>],
                                                    "idle").notified)
               ELSE events
  /\ prepareCalls' = prepareCalls \ PrepareResumed(t)
  /\ NothingPrepared
  /\ UNCHANGED <<portTicks, portPC, romRets, portJoyp, initialized, currentTicks, rfpc,
                 targetTicks, frameStart, nFrames, raised, lastDispatch, earlyStops,
                 nApi, lastCall, gameReady, lastBattleState,
                 battleCount,
                 framesSinceLastCheck,
                 lastUpdate>>

\* The guest enters a battle: it stores a non-zero value to wIsInBattle.
GuestBattleStart ==
  /\ mem[WRAM.wIsInBattle] = 0
  /\ \E b \in BattleKinds : mem' = [mem EXCEPT ![WRAM.wIsInBattle] = b]
  /\ UNCHANGED <<genVars, emuVars, ctlVars, pollVars, portTicks, portPC, portBreaks,
                 romRets, portJoyp>>

\* The guest leaves a battle: it stores the result r and clears wIsInBattle.
GuestBattleEnd(r) ==
  /\ mem[WRAM.wIsInBattle] # 0
  /\ mem' = [mem EXCEPT ![WRAM.wIsInBattle] = 0, ![WRAM.wBattleResult] = r]
  /\ UNCHANGED <<genVars, emuVars, ctlVars, pollVars, portTicks, portPC, portBreaks,
                 romRets, portJoyp>>

\* The state when gameLoop() first calls update(): init() has built the wrapper, the
\* service and the controller and handed the service to the controller,
\* startGeneration()'s getNext() (call 1) has resolved with the creature of task 1,
\* and tryInjectFirstPokemon() has passed it to injectGeneratedPokemon().
PollInit ==
  /\ queue = <<>>
  /\ generating = FALSE
  /\ pendingPromise = 0
  /\ inflight = {}
  /\ owner = [t \in Tasks |-> 0]
  /\ waiters = [t \in Tasks |-> <<>>]
  /\ started = <<1>>
  /\ lastStateChange = [state |-> "ready", task |-> 1]
  /\ unhandled = {}
  /\ completed = <<1>>
  /\ returned = << <<1, 1>> >>
  /\ rejected = {}
  /\ failed = {}
  /\ nCalls = 1
  /\ nPrefetch = 0
  /\ nInvalidate = 0
  /\ invalidatedInFlight = {}
  /\ getNextCalls = {1}
  /\ lastDoGenerate = NoDoGenerate
  /\ partyMon = NoPartyMon
  /\ encoded = NoEncoded
  /\ PageStarted
  /\ portTicks = 0
  /\ portPC = 256
  /\ portBreaks = {LOAD_MON_FRONT_SPRITE_ADDR}
  /\ mem = ApplyWrites([a \in RamAddrs |-> 0],
                       setupTestBattleWrites(TestBattleSetup(PokemonOfTask(1))))
  /\ romRets = {}
  /\ portJoyp = {}
  /\ initialized = TRUE
  /\ currentTicks = 0
  /\ breakpoints = [a \in BpAddrs |-> IF a = LOAD_MON_FRONT_SPRITE_ADDR THEN "inject"
                                       ELSE "none"]
  /\ rfpc = "idle"
  /\ targetTicks = 0
  /\ frameStart = 0
  /\ nFrames = 0
  /\ raised = FALSE
  /\ fired = {}
  /\ armed = {LOAD_MON_FRONT_SPRITE_ADDR}
  /\ earlyStops = FALSE
  /\ nApi = 1
  /\ lastCall = "injectGeneratedPokemon"
  /\ lastDispatch = [kind |-> "none", addr |-> 0, path |-> "n/a", progress |-> FALSE,
                     left |-> FALSE]
  /\ state = "idle"
  /\ gameReady = TRUE
  /\ currentPokemon = PokemonOfTask(1)
  /\ injectionPending = TRUE
  /\ breakpointInstalled = TRUE
  /\ lastBattleState = 0
  /\ battleCount = 0
  /\ framesSinceLastCheck = 0
  /\ prepareCalls = {}
  /\ lastUpdate = NoUpdate
  /\ events = <<>>

\* gameLoop()'s update() calls, the guest's battles and the generation tasks.
PollNext ==
  \/ Update /\ UNCHANGED <<lastDoGenerate, partyMon, pageVars, encoded>>
  \/ GuestBattleStart /\ UNCHANGED <<lastDoGenerate, partyMon, pageVars, encoded>>
  \/ \E r \in BattleResultValues : GuestBattleEnd(r) /\ UNCHANGED <<lastDoGenerate, partyMon, pageVars, encoded>>
  \/ \E t \in Tasks : PollTaskComplete(t) /\ UNCHANGED <<lastDoGenerate, partyMon, pageVars, encoded>>
  \/ \E t \in Tasks : PollTaskFail(t) /\ UNCHANGED <<lastDoGenerate, partyMon, pageVars, encoded>>

SpecPoll == PollInit /\ [][PollNext]_vars

\* Guest memory after the injection of creature p into a battle of kind b, from
\* memory m.
InjectedMemory(m, p, b) ==
  LET m0 == [m EXCEPT ![WRAM.wIsInBattle] = b]
      m1 == ApplyWrites(m0, injectDataWrites(p))
  IN ApplyWrites(m1, injectSpriteSyncWrites(m1, p))

\* The state after the frame in which the guest entered its first battle and the
\* breakpoint hit at LoadMonFrontSprite injected the first creature: the callback
\* has removed the breakpoint and cleared both flags; update() has not polled since.
PrepareInit ==
  /\ queue = <<>>
  /\ generating = FALSE
  /\ pendingPromise = 0
  /\ inflight = {}
  /\ owner = [t \in Tasks |-> 0]
  /\ waiters = [t \in Tasks |-> <<>>]
  /\ started = <<1>>
  /\ lastStateChange = [state |-> "ready", task |-> 1]
  /\ unhandled = {}
  /\ completed = <<1>>
  /\ returned = << <<1, 1>> >>
  /\ rejected = {}
  /\ failed = {}
  /\ nCalls = 1
  /\ nPrefetch = 0
  /\ nInvalidate = 0
  /\ invalidatedInFlight = {}
  /\ getNextCalls = {1}
  /\ lastDoGenerate = NoDoGenerate
  /\ partyMon = NoPartyMon
  /\ encoded = NoEncoded
  /\ PageStarted
  /\ initialized = TRUE
  /\ romRets = {}
  /\ portTicks = TICKS_PER_FRAME
  /\ portPC = 256
  /\ portBreaks = {}
  /\ \E b \in BattleKinds :
       mem = InjectedMemory(
               ApplyWrites([a \in RamAddrs |-> 0],
                           setupTestBattleWrites(TestBattleSetup(PokemonOfTask(1)))),
               PokemonOfTask(1), b)
  /\ portJoyp = {}
  /\ currentTicks = TICKS_PER_FRAME
  /\ breakpoints = [a \in BpAddrs |-> "none"]
  /\ rfpc = "idle"
  /\ targetTicks = TICKS_PER_FRAME
  /\ frameStart = 0
  /\ nFrames = 1
  /\ raised = FALSE
  /\ fired = {LOAD_MON_FRONT_SPRITE_ADDR}
  /\ armed = {}
  /\ earlyStops = TRUE
  /\ nApi = 1
  /\ lastCall = "injectGeneratedPokemon"
  /\ lastDispatch = [kind |-> "complete", addr |-> 256, path |-> "n/a", progress |-> TRUE,
                     left |-> TRUE]
  /\ state = "idle"
  /\ gameReady = TRUE
  /\ currentPokemon = PokemonOfTask(1)
  /\ injectionPending = FALSE
  /\ breakpointInstalled = FALSE
  /\ lastBattleState = 0
  /\ battleCount = 0
  /\ framesSinceLastCheck = 0
  /\ prepareCalls = {}
  /\ lastUpdate = NoUpdate
  /\ events = <<>>

\* update() polls, the guest's battles, and generation tasks that complete.
PrepareNext ==
  \/ Update /\ UNCHANGED <<lastDoGenerate, partyMon, pageVars, encoded>>
  \/ GuestBattleStart /\ UNCHANGED <<lastDoGenerate, partyMon, pageVars, encoded>>
  \/ \E r \in BattleResultValues : GuestBattleEnd(r) /\ UNCHANGED <<lastDoGenerate, partyMon, pageVars, encoded>>
  \/ \E t \in Tasks : PollTaskComplete(t) /\ UNCHANGED <<lastDoGenerate, partyMon, pageVars, encoded>>

\* Every generation task that was started completes in the end.
TasksComplete == \A t \in Tasks : (t \in inflight) ~> (t \in Range(completed))

\* The controller after the first injection, with generation tasks that complete.
SpecPrepare == PrepareInit /\ [][PrepareNext]_vars /\ TasksComplete

\* The controller from its construction on: the page initializes the wrapper, hands
\* the first creature to injectGeneratedPokemon() (the regenerate handler may hand
\* it another), and gameLoop() runs runFrame() and update() in turn.
CycleNext ==
  \/ EmulatorInit /\ UNCHANGED <<genVars, pollVars, lastDoGenerate, partyMon, pageVars, encoded>>
  \/ InjectGeneratedPokemon(PokemonOfTask(1)) /\ UNCHANGED <<genVars, pollVars, lastDoGenerate, partyMon, pageVars, encoded>>
  \/ RunFrameBegin /\ UNCHANGED <<genVars, pollVars, lastDoGenerate, partyMon, pageVars, encoded>>
  \/ PortRun /\ UNCHANGED <<genVars, pollVars, lastDoGenerate, partyMon, pageVars, encoded>>
  \/ Dispatch /\ UNCHANGED <<genVars, pollVars, lastDoGenerate, partyMon, pageVars, encoded>>
  \/ Update /\ UNCHANGED <<lastDoGenerate, partyMon, pageVars, encoded>>
  \/ \E t \in Tasks : PollTaskComplete(t) /\ UNCHANGED <<lastDoGenerate, partyMon, pageVars, encoded>>

CycleInit == GenInit /\ EmuParked

SpecCycle == CycleInit /\ [][CycleNext]_vars

GenNext ==
  \/ Prefetch /\ UNCHANGED <<portVars, emuVars, ctlVars, pollVars, lastDoGenerate, partyMon, pageVars, encoded>>
  \/ GetNextIfReady /\ UNCHANGED <<portVars, emuVars, ctlVars, pollVars, lastDoGenerate, partyMon, pageVars, encoded>>
  \/ GetNext /\ UNCHANGED <<portVars, emuVars, ctlVars, pollVars, lastDoGenerate, partyMon, pageVars, encoded>>
  \/ InvalidateQueue /\ UNCHANGED <<portVars, emuVars, ctlVars, pollVars, lastDoGenerate, partyMon, pageVars, encoded>>
  \/ \E t \in Tasks : TaskComplete(t) /\ UNCHANGED <<portVars, emuVars, ctlVars, pollVars, lastDoGenerate, partyMon, pageVars, encoded>>
  \/ \E t \in Tasks : TaskFail(t) /\ UNCHANGED <<portVars, emuVars, ctlVars, pollVars, lastDoGenerate, partyMon, pageVars, encoded>>

\* The generation service on its own: its callers are an arbitrary client.
ServiceInit == GenInit /\ EmuParked

SpecGen == ServiceInit /\ [][GenNext]_vars

(***************************************************************************)
(* doGenerate(): the provider, and the local generator it falls back to.   *)
(***************************************************************************)
defaultLevel == 10  \* this.defaultLevel, as index.tsx constructs the service

\* isApiAvailable()
isApiAvailable == TRUE

\* Values of Math.floor(Math.random() * 5) followed here, of 0..4.
LevelRolls == {0, 4}

\* doGenerate(): "Math.max(1, this.defaultLevel + Math.floor(Math.random() * 5) - 2)"
actualLevel(roll) ==
  LET level == defaultLevel + roll - 2 IN IF level > 1 THEN level ELSE 1

\* What the provider's calls return within generateFromApi(): the name, the image,
\* its 2bpp encoding, the types, the stats and the moves picked.
ApiResponse ==
  [ name |-> <<"Z", "A", "P", "P", "I", "X">>,
    spriteDataUrl |-> "data:image/png;provider",
    sprite2bpp |-> [i \in 1..MaxSpriteLen |-> 255],
    type1 |-> 23, type2 |-> 23,
    stats |-> [hp |-> 60, atk |-> 99, def |-> 70, spd |-> 81, spc |-> 65],
    moves |-> <<33, 10, 52, 55>> ]

\* What generateMockPokemon() and mockGenerateImage() return.
MockPokemon ==
  [ name |-> <<"C", "r", "y", "s", "t", "a", "l", "i", "x">>,
    sprite2bpp |-> [i \in 1..MaxSpriteLen |-> (85 * i) % 256],
    types |-> <<21, 25>>,
    baseStats |-> [hp |-> 99, atk |-> 61, def |-> 62, spd |-> 63, spc |-> 64],
    moves |-> <<98, 44, 22, 84>> ]

MockImage == "data:image/png;mock"

\* generateFromApi(level), given the provider's answers.
generateFromApi(resp, level) ==
  [ name |-> resp.name,
    nameEncoded |-> encodeString(resp.name, NAME_LENGTH),
    sprite2bpp |-> resp.sprite2bpp,
    spriteDataUrl |-> resp.spriteDataUrl,
    types |-> <<resp.type1, resp.type2>>,
    stats |-> resp.stats,
    baseStats |-> [hp |-> resp.stats.hp, attack |-> resp.stats.atk,
                   defense |-> resp.stats.def, speed |-> resp.stats.spd,
                   special |-> resp.stats.spc],
    moves |-> resp.moves,
    level |-> level ]

\* generateFromMock(level), given the mock creature and its preview image.
generateFromMock(mock, image, level) ==
  [ name |-> SubSeq(ToUpperCase(mock.name), 1, Min(Len(mock.name), 10)),
    nameEncoded |-> encodeString(ToUpperCase(mock.name), NAME_LENGTH),
    sprite2bpp |-> mock.sprite2bpp,
    spriteDataUrl |-> image,
    types |-> mock.types,
    stats |-> mock.baseStats,
    baseStats |-> [hp |-> mock.baseStats.hp, attack |-> mock.baseStats.atk,
                   defense |-> mock.baseStats.def, speed |-> mock.baseStats.spd,
                   special |-> mock.baseStats.spc],
    moves |-> mock.moves,
    level |-> level ]

\* How generateFromApi() ends, and how generateFromMock() ends when it is called.
Outcomes == {"returned", "threw"}

\* doGenerate() settled with rejection.
Rejection == [resolved |-> FALSE, pokemon |-> NoDoGenerate.pokemon]

\* doGenerate()'s call of generateFromMock(level), which ends as fallback says.
mockRun(level, fallback) ==
  IF fallback = "returned"
  THEN [resolved |-> TRUE, pokemon |-> generateFromMock(MockPokemon, MockImage, level)]
  ELSE Rejection

\* A doGenerate() without the catch: the provider's error rejects the task.
doGenerate_NoFallback(roll, provider, fallback) ==
  IF isApiAvailable
  THEN IF provider = "returned"
       THEN [resolved |-> TRUE,
             pokemon |-> generateFromApi(ApiResponse, actualLevel(roll))]
       ELSE Rejection
  ELSE mockRun(actualLevel(roll), fallback)

\* doGenerate(), with the level roll and the ways the provider and the fallback
\* generator end: "try { return await this.generateFromApi(actualLevel) } catch
\* { return await this.generateFromMock(actualLevel) }".
doGenerate(roll, provider, fallback) ==
  IF isApiAvailable
  THEN IF provider = "returned"
       THEN [resolved |-> TRUE,
             pokemon |-> generateFromApi(ApiResponse, actualLevel(roll))]
       ELSE mockRun(actualLevel(roll), fallback)
  ELSE mockRun(actualLevel(roll), fallback)

\* doGenerate() of task t settles: generateOne() goes on as for any resolved or
\* rejected task.
DoGenerateSettles(t) ==
  /\ t \in inflight
  /\ \E roll \in LevelRolls, provider \in Outcomes, fallback \in Outcomes :
       LET d == doGenerate(roll, provider, fallback) IN
         /\ IF d.resolved THEN TaskComplete(t) ELSE TaskFail(t)
         /\ lastDoGenerate' = [task |-> t, roll |-> roll, provider |-> provider,
                               fallback |-> fallback, resolved |-> d.resolved,
                               pokemon |-> d.pokemon]

\* The generation service with doGenerate()'s branches followed.
FallbackNext ==
  \/ Prefetch /\ UNCHANGED <<portVars, emuVars, ctlVars, pollVars, lastDoGenerate, partyMon, pageVars, encoded>>
  \/ GetNextIfReady /\ UNCHANGED <<portVars, emuVars, ctlVars, pollVars, lastDoGenerate, partyMon, pageVars, encoded>>
  \/ GetNext /\ UNCHANGED <<portVars, emuVars, ctlVars, pollVars, lastDoGenerate, partyMon, pageVars, encoded>>
  \/ \E t \in Tasks : DoGenerateSettles(t) /\ UNCHANGED <<portVars, emuVars, ctlVars, pollVars, partyMon, pageVars, encoded>>

SpecFallback == ServiceInit /\ [][FallbackNext]_vars

(***************************************************************************)
(* buildPartyMon() on its own, over the creatures and options of its       *)
(* domain.                                                                 *)
(***************************************************************************)
\* The levels, base stats and move lists of a creature, and the hp and maxHp
\* options of a call.
Levels == 1..100
BaseStatChoices ==
  { [hp |-> 1, attack |-> 255, defense |-> 60, speed |-> 99, special |-> 128],
    [hp |-> 255, attack |-> 1, defense |-> 2, speed |-> 254, special |-> 77] }
MoveChoices ==
  { <<0, 0, 0, 0>>, <<255, 0, 33, 1>>, <<33, 10, 98, 0>>, <<1, 2, 3, 4>>,
    <<255, 255, 255, 255>>, <<128, 127>> }
HpOptions == {Undefined, 0, 255, 256, 65535}
MaxHpOptions == {Undefined, 4660}

\* buildPartyMon() called for creature c with the options hp and maxHp.
BuildPartyMon(c, hp, maxHp) ==
  LET options == [species |-> POKEMON.MEW, level |-> c.level, moves |-> c.moves,
                  hp |-> hp, maxHp |-> maxHp]
  IN partyMon' = [creature |-> c, options |-> options, struct |-> buildPartyMonOf(options)]

(***************************************************************************)
(* The page's start-up (src/index.tsx): gameLoop() boots the game while    *)
(* startGeneration() awaits the first creature.                            *)
(***************************************************************************)
MaxLoopFrames == 662  \* gameLoop() iterations in a run: the boot period and two more

\* No event handler runs inside another: gameLoop() is between two iterations and
\* init() has called startGeneration().
PageIdle == loopStep = "frame" /\ nCalls > 0

\* runFrame() in a frame the Port runs to its target, without an early stop.
RunWholeFrame ==
  /\ rfpc = "idle"
  /\ ~raised
  /\ initialized
  /\ nFrames' = nFrames + 1
  /\ targetTicks' = TargetTicks(currentTicks)
  /\ frameStart' = currentTicks
  /\ portTicks' = TargetTicks(currentTicks)
  /\ currentTicks' = TargetTicks(currentTicks)
  /\ earlyStops' = FALSE
  /\ lastDispatch' = [kind |-> "complete", addr |-> portPC, path |-> "n/a",
                      progress |-> TRUE, left |-> TRUE]
  /\ UNCHANGED <<portPC, portBreaks, mem, romRets, portJoyp, ctlVars, initialized,
                 breakpoints, rfpc, raised, fired, armed, nApi, lastCall>>

\* gameLoop(): "emulator.runFrame()".  init() calls gameLoop() before
\* startGeneration(); the later calls are animation frames.
GameLoopFrame ==
  /\ loopStep = "frame"
  /\ nFrames = 0 \/ nCalls > 0
  /\ nFrames < MaxLoopFrames
  /\ RunWholeFrame
  /\ loopStep' = "boot"
  /\ UNCHANGED <<genVars, pollVars, lastDoGenerate, partyMon, encoded, bootFrameCount,
                 gameBooted, firstPokemon, generationComplete, injectionDone,
                 regenerating, injections>>

\* tryInjectFirstPokemon() with the flags booted and complete and the creature first
\* (battleController is set by init() before gameLoop() and startGeneration() run).
TryInjectFirstPokemon(booted, complete, first) ==
  IF ~injectionDone /\ booted /\ complete /\ first # 0
  THEN /\ InjectGeneratedPokemon(PokemonOfTask(first))
       /\ injectionDone' = TRUE
       /\ injections' = Append(injections,
                               [pokemon |-> first, by |-> "tryInjectFirstPokemon",
                                gameBooted |-> booted, generationComplete |-> complete])
  ELSE UNCHANGED <<portVars, emuVars, ctlVars, injectionDone, injections>>

\* gameLoop(): "if (!gameBooted) { bootFrameCount++; if (bootFrameCount >= BOOT_FRAMES)
\* { gameBooted = true; tryInjectFirstPokemon(); } }"
GameLoopBoot ==
  /\ loopStep = "boot"
  /\ loopStep' = "update"
  /\ IF gameBooted
     THEN UNCHANGED <<bootFrameCount, gameBooted, portVars, emuVars, ctlVars,
                      injectionDone, injections>>
     ELSE /\ bootFrameCount' = bootFrameCount + 1
          /\ gameBooted' = (bootFrameCount + 1 >= BOOT_FRAMES)
          /\ IF bootFrameCount + 1 >= BOOT_FRAMES
             THEN TryInjectFirstPokemon(TRUE, generationComplete, firstPokemon)
             ELSE UNCHANGED <<portVars, emuVars, ctlVars, injectionDone, injections>>
  /\ UNCHANGED <<genVars, pollVars, lastDoGenerate, partyMon, encoded, firstPokemon,
                 generationComplete, regenerating>>

\* gameLoop(): "if (injectionDone) { battleController?.update(); }", then the next
\* frame is scheduled.
GameLoopUpdate ==
  /\ loopStep = "update"
  /\ loopStep' = "frame"
  /\ IF injectionDone THEN Update
     ELSE UNCHANGED <<genVars, portVars, emuVars, ctlVars, pollVars>>
  /\ UNCHANGED <<lastDoGenerate, partyMon, encoded, bootFrameCount, gameBooted,
                 firstPokemon, generationComplete, injectionDone, regenerating,
                 injections>>

\* startGeneration() up to its await: getNext() is call 1 of the service.  init()
\* calls it right after the first gameLoop().
StartGeneration ==
  /\ loopStep = "frame"
  /\ nFrames = 1
  /\ nCalls = 0
  /\ GetNext
  /\ UNCHANGED <<portVars, emuVars, ctlVars, pollVars, lastDoGenerate, partyMon,
                 pageVars, encoded>>

\* The click handler of the regenerate button up to its await: invalidateQueue(),
\* then getNext(), which finds the queue empty and joins the task in flight or
\* starts one.
RegenerateClick ==
  /\ PageIdle
  /\ nInvalidate < MaxInvalidate
  /\ nCalls < MaxCalls
  /\ nInvalidate' = nInvalidate + 1
  /\ invalidatedInFlight' = invalidatedInFlight \cup inflight
  /\ queue' = <<>>
  /\ nCalls' = nCalls + 1
  /\ getNextCalls' = getNextCalls \cup {nCalls + 1}
  /\ IF pendingPromise # 0
     THEN /\ waiters' = [waiters EXCEPT ![pendingPromise] = Append(@, nCalls + 1)]
          /\ UNCHANGED <<generating, pendingPromise, inflight, owner, started, lastStateChange>>
     ELSE GenerateOneStart(nCalls + 1)
  /\ regenerating' = regenerating \cup {nCalls + 1}
  /\ UNCHANGED <<completed, returned, rejected, unhandled, failed, nPrefetch, portVars, emuVars,
                 ctlVars, pollVars, lastDoGenerate, partyMon, encoded, bootFrameCount,
                 gameBooted, firstPokemon, generationComplete, injectionDone, loopStep,
                 injections>>

\* doGenerate() of task t resolves and the calls awaiting it go on, the ones on
\* this.pendingPromise first: the regenerate handlers call
\* injectGeneratedPokemon(pokemon); startGeneration() sets firstPokemon and
\* generationComplete and calls tryInjectFirstPokemon().  The injections of one
\* step write the same creature, so that they leave the state of one.
BootTaskComplete(t) ==
  /\ PageIdle
  /\ TaskComplete(t)
  /\ LET res == Resumed(t)
         regen == SelectSeq(res, LAMBDA c : c \in regenerating)
         first == 1 \in Range(res)
         inject == first /\ ~injectionDone /\ gameBooted
     IN /\ firstPokemon' = IF first THEN t ELSE firstPokemon
        /\ generationComplete' = (generationComplete \/ first)
        /\ injectionDone' = (injectionDone \/ inject)
        /\ regenerating' = regenerating \ Range(res)
        /\ injections' =
             injections
             \o [i \in 1..Len(regen) |->
                   [pokemon |-> t, by |-> "regenerate", gameBooted |-> gameBooted,
                    generationComplete |-> generationComplete]]
             \o (IF inject
                 THEN << [pokemon |-> t, by |-> "tryInjectFirstPokemon",
                          gameBooted |-> gameBooted, generationComplete |-> TRUE] >>
                 ELSE <<>>)
        /\ IF regen # <<>> \/ inject
           THEN InjectGeneratedPokemon(PokemonOfTask(t))
           ELSE UNCHANGED <<portVars, emuVars, ctlVars>>
  /\ UNCHANGED <<pollVars, lastDoGenerate, partyMon, encoded, bootFrameCount, gameBooted,
                 loopStep>>

\* The keydown handler: "if (button && emulator && injectionDone) setJoypad(...)".
KeyDown(btn) ==
  /\ PageIdle
  /\ injectionDone
  /\ SetJoypad(btn, TRUE)
  /\ UNCHANGED <<genVars, pollVars, lastDoGenerate, partyMon, pageVars, encoded>>

\* The keyup handler: "if (button && emulator) setJoypad(...)".
KeyUp(btn) ==
  /\ PageIdle
  /\ initialized
  /\ SetJoypad(btn, FALSE)
  /\ UNCHANGED <<genVars, pollVars, lastDoGenerate, partyMon, pageVars, encoded>>

BootNext ==
  \/ EmulatorInit /\ UNCHANGED <<genVars, pollVars, lastDoGenerate, partyMon, pageVars, encoded>>
  \/ GameLoopFrame
  \/ GameLoopBoot
  \/ GameLoopUpdate
  \/ StartGeneration
  \/ RegenerateClick
  \/ \E t \in Tasks : BootTaskComplete(t)
  \/ \E btn \in Buttons : KeyDown(btn)
  \/ \E btn \in Buttons : KeyUp(btn)

\* The page from init() on, after the wrapper, the service and the controller were
\* constructed.
BootInit == GenInit /\ EmuParked

SpecBoot == BootInit /\ [][BootNext]_vars

\* The controller's injection with a client of the wrapper that also calls
\* clearBreakpoints() and destroy().
RegistryNext ==
  \/ EmulatorInit /\ UNCHANGED <<genVars, pollVars, lastDoGenerate, partyMon, pageVars, encoded>>
  \/ InjectGeneratedPokemon(PokemonOfTask(1)) /\ UNCHANGED <<genVars, pollVars, lastDoGenerate, partyMon, pageVars, encoded>>
  \/ ClearBreakpoints /\ UNCHANGED <<genVars, pollVars, lastDoGenerate, partyMon, pageVars, encoded>>
  \/ Destroy /\ UNCHANGED <<genVars, pollVars, lastDoGenerate, partyMon, pageVars, encoded>>
  \/ RunFrameBegin /\ UNCHANGED <<genVars, pollVars, lastDoGenerate, partyMon, pageVars, encoded>>
  \/ PortRun /\ UNCHANGED <<genVars, pollVars, lastDoGenerate, partyMon, pageVars, encoded>>
  \/ Dispatch /\ UNCHANGED <<genVars, pollVars, lastDoGenerate, partyMon, pageVars, encoded>>

SpecRegistry == InjectInit /\ [][RegistryNext]_vars

(***************************************************************************)
(* encodeString() on its own, over strings shorter and longer than a name. *)
(***************************************************************************)
MaxNameLen == 12    \* characters of a string over NameChars
ShortNameLen == 4   \* characters of a string over MixedChars

\* A character of CHARMAP and one that is no key of it; characters of each group
\* of CHARMAP and another that is no key of it.
NameChars == {"A", "-"}
MixedChars == {"Z", "a", "7", " ", "@", "!"}

Strings ==
  UNION {[1..n -> NameChars] : n \in 0..MaxNameLen}
  \cup UNION {[1..n -> MixedChars] : n \in 0..ShortNameLen}

\* encodeString(str) with the default maxLen, and the writes of
\* writeMemoryBlock(WRAM.wEnemyMonNick, ...) for its result.
EncodeString(str) ==
  LET bytes == encodeString(str, NAME_LENGTH) IN
    encoded' = [str |-> str, bytes |-> bytes,
                writes |-> BlockWrites(WRAM.wEnemyMonNick, bytes)]

\* The calls are independent of each other: a behaviour follows one of them.
EncodeNext ==
  /\ encoded = NoEncoded
  /\ \E str \in Strings :
       /\ EncodeString(str)
       /\ UNCHANGED <<genVars, portVars, emuVars, ctlVars, pollVars, lastDoGenerate,
                      partyMon, pageVars>>

SpecEncode == ServiceInit /\ [][EncodeNext]_vars

\* The calls are independent of each other: a behaviour follows one of them.
LayoutNext ==
  /\ partyMon = NoPartyMon
  /\ \E level \in Levels, baseStats \in BaseStatChoices, moves \in MoveChoices,
        hp \in HpOptions, maxHp \in MaxHpOptions :
       /\ BuildPartyMon([level |-> level, moves |-> moves, baseStats |-> baseStats],
                        hp, maxHp)
       /\ UNCHANGED <<genVars, portVars, emuVars, ctlVars, pollVars, lastDoGenerate, pageVars, encoded>>

SpecLayout == ServiceInit /\ [][LayoutNext]_vars

(***************************************************************************)
(* Claims about the pre-fetch queue, checked under SpecGen.                *)
(***************************************************************************)

\* C2: at every instant, under any interleaving of prefetch(), getNext(),
\* getNextIfReady() and invalidateQueue() with task completions, the number of
\* generation tasks in flight (doGenerate() started and not yet settled) is 0 or 1;
\* and as long as nothing but prefetch() has been called and no task has settled,
\* however many prefetch() calls were made, exactly one task has been started.
C2_AtMostOneInFlight ==
  /\ Cardinality(inflight) <= 1
  /\ (nPrefetch >= 1 /\ nCalls = 0 /\ completed = <<>> /\ failed = {})
        => Len(started) = 1

\* C2's case: two prefetch() calls back to back, one task in flight.
C2_Witness ==
  /\ nPrefetch >= 2 /\ nCalls = 0 /\ completed = <<>> /\ failed = {}
  /\ Cardinality(inflight) = 1

\* C3: each generated creature is returned to exactly one caller: no creature is
\* returned by two getNext()/getNextIfReady() calls.
C3_ReturnedToOneCaller ==
  \A i, j \in 1..Len(returned) : i # j => returned[i][2] # returned[j][2]

\* The place of task t in the completion order.
CompletedAt(t) == IndexOf(completed, t)

\* C4: creatures are handed out in FIFO order: the creatures returned by successive
\* getNext()/getNextIfReady() calls come in the order in which their generation
\* tasks completed (no later-completed creature before an earlier-completed one),
\* and tasks complete in the order in which they were started.
C4_FifoOrder ==
  /\ \A i \in 1..Len(returned) : returned[i][2] \in Range(completed)
  /\ \A i, j \in 1..Len(returned) :
        i < j => CompletedAt(returned[i][2]) <= CompletedAt(returned[j][2])
  /\ \A i, j \in 1..Len(completed) :
        i < j => IndexOf(started, completed[i]) < IndexOf(started, completed[j])

\* C4's case: two different creatures have been handed out, one of them from the
\* queue and one to a call that waited for its task.
C4_Witness ==
  /\ Len(returned) >= 2
  /\ returned[1][2] # returned[2][2]
  /\ Len(completed) >= 2

\* Task t settles successfully in this step.
Completes(t) == t \in inflight /\ t \in Range(completed')

\* The entries this step appends to the hand-out history.
NewlyReturned == {returned'[i] : i \in (Len(returned) + 1)..Len(returned')}

\* C15: a prefetch() call with a task in flight or a creature queued starts no task
\* and changes no state of the service; otherwise it starts exactly one task and
\* returns without the task having settled; and when a task started by prefetch()
\* completes, its creature is appended to the tail of the queue (from where the
\* getNext() calls that waited for the task, if any, take it in the same turn).
C15_PrefetchStartsAtMostOne ==
  [][/\ (nPrefetch' # nPrefetch) =>
          IF inflight # {} \/ queue # <<>>
          THEN /\ queue' = queue /\ generating' = generating
               /\ pendingPromise' = pendingPromise /\ inflight' = inflight
               /\ owner' = owner /\ waiters' = waiters /\ started' = started
               /\ completed' = completed /\ returned' = returned
               /\ rejected' = rejected /\ failed' = failed
          ELSE /\ Len(started') = Len(started) + 1
               /\ inflight' = {started'[Len(started')]}
               /\ queue' = queue /\ completed' = completed /\ returned' = returned
     /\ \A t \in Tasks :
          (Completes(t) /\ owner[t] = 0) =>
             IF waiters[t] = <<>> THEN queue' = Append(queue, t)
             ELSE /\ queue' = queue
                  /\ \A c \in Range(waiters[t]) : <<c, t>> \in NewlyReturned]_vars

\* C15's case: only prefetch() was called, twice; the one task it started has
\* completed and its creature is at the tail of the queue.
C15_Witness ==
  /\ nPrefetch >= 2 /\ nCalls = 0
  /\ Len(started) = 1
  /\ queue = <<1>>
  /\ inflight = {}

\* C16: getNext() called with the queue empty and a task in flight starts no task
\* and resolves with that task's creature when the task completes; called with a
\* creature queued it returns and removes the head without starting a task; and
\* whenever a call resolves, the creature it returns is not in the queue.
C16_GetNextJoinsOrPops ==
  [][/\ (nCalls' # nCalls /\ (nCalls + 1) \in getNextCalls') =>
          /\ (queue # <<>>) =>
                /\ returned' = Append(returned, <<nCalls + 1, Head(queue)>>)
                /\ queue' = Tail(queue)
                /\ started' = started /\ inflight' = inflight
          /\ (queue = <<>> /\ inflight # {}) =>
                /\ started' = started /\ inflight' = inflight
                /\ returned' = returned
                /\ \E t \in inflight : (nCalls + 1) \in Range(waiters'[t])
     /\ \A t \in Tasks :
          Completes(t) => \A c \in Range(waiters[t]) : <<c, t>> \in NewlyReturned
     /\ \A e \in NewlyReturned : e[2] \notin Range(queue')]_vars

\* C16's case: a getNext() call made while the task started by prefetch() was in
\* flight has resolved with that task's creature, no second task was started, and
\* the queue does not hold the creature.
C16_Witness ==
  /\ nPrefetch >= 1
  /\ Len(started) = 1
  /\ \E c \in getNextCalls : <<c, 1>> \in Range(returned)
  /\ queue = <<>>
  /\ inflight = {}

\* C17: invalidateQueue() empties the queue and leaves generating, pendingPromise
\* and the task in flight as they were; a task in flight stays in flight until it
\* settles, and when it completes its creature is pushed to the queue or handed to
\* the getNext() calls waiting for it.
C17_InvalidateKeepsTask ==
  [][/\ (nInvalidate' # nInvalidate) =>
          /\ queue' = <<>>
          /\ generating' = generating /\ pendingPromise' = pendingPromise
          /\ inflight' = inflight /\ owner' = owner /\ waiters' = waiters
     /\ \A t \in inflight :
          \/ t \in inflight' /\ generating' /\ pendingPromise' = t
          \/ t \in failed'
          \/ /\ Completes(t)
             /\ IF Resumed(t) = <<>> THEN queue' = Append(queue, t)
                ELSE \A c \in Range(Resumed(t)) : <<c, t>> \in NewlyReturned]_vars

\* C17's case: invalidateQueue() was called with a task in flight and creatures may
\* have been thrown away; the task has completed since and its creature is queued.
C17_Witness ==
  /\ nInvalidate >= 1
  /\ \E t \in invalidatedInFlight : t \in Range(completed) /\ t \in Range(queue)

(***************************************************************************)
(* Claims about the frame loop and the breakpoint registry, checked under  *)
(* SpecEmu / SpecEmuFair.                                                  *)
(***************************************************************************)

\* The callbacks a registry entry can hold.
Callbacks == TestCallbacks \cup {"inject"}

\* runFrame() is at the point where the Port has stopped before the target.
EarlyHalt == rfpc = "check" /\ portTicks < targetTicks

C5_FrameTickBound ==
  initialized => currentTicks <= frameStart + TICKS_PER_FRAME

\* C5's case: a runFrame() call has returned after an early stop at which a callback
\* ran, and it advanced currentTicks by the whole of TICKS_PER_FRAME.
C5_Witness ==
  /\ rfpc = "idle"
  /\ nFrames >= 1
  /\ earlyStops
  /\ fired # {}
  /\ lastDispatch.kind = "complete"
  /\ currentTicks = frameStart + TICKS_PER_FRAME

\* C6: runFrame() terminates: whenever the frame loop is running, it is
\* eventually left, for every behaviour of the Port and every set of callbacks.
C6_RunFrameTerminates == (rfpc # "idle") ~> (rfpc = "idle")

\* C7: runFrame() never raises: no exception, a callback's included, leaves it.
C7_NeverRaises == ~raised

(***************************************************************************)
(* Claims about the injection callback, checked under SpecCtl.             *)
(***************************************************************************)

\* The Port has halted early at LoadMonFrontSprite with the controller's callback
\* registered there: runFrame() is about to call onLoadMonFrontSpriteBreakpoint().
InjectionHit ==
  /\ EarlyHalt
  /\ portPC = LOAD_MON_FRONT_SPRITE_ADDR
  /\ breakpoints[LOAD_MON_FRONT_SPRITE_ADDR] = "inject"

\* No RET at offsets 1..199 from LoadMonFrontSprite.
NoRetInWindow ==
  \A o \in 1..(SCAN_LIMIT - 1) : (LOAD_MON_FRONT_SPRITE_ADDR + o) \notin romRets

\* C8: false positive: a hit of the breakpoint at 0x1665 while wIsInBattle reads 0
\* writes no guest memory, leaves the instruction pointer, injectionPending and
\* currentPokemon as they were, and leaves the breakpoint in the registry and
\* flagged in the Port.
C8_FalsePositive ==
  [][(InjectionHit /\ mem[WRAM.wIsInBattle] = 0) =>
       /\ mem' = mem
       /\ portPC' = portPC
       /\ injectionPending' = injectionPending
       /\ currentPokemon' = currentPokemon
       /\ breakpointInstalled' = breakpointInstalled
       /\ breakpoints'[LOAD_MON_FRONT_SPRITE_ADDR] = "inject"
       /\ LOAD_MON_FRONT_SPRITE_ADDR \in portBreaks']_vars

\* C8's case: the callback has just returned from a false positive with an
\* injection still pending and the breakpoint still there.
C8_Witness ==
  /\ lastDispatch.path = "false_positive"
  /\ injectionPending
  /\ breakpoints[LOAD_MON_FRONT_SPRITE_ADDR] = "inject"
  /\ LOAD_MON_FRONT_SPRITE_ADDR \in portBreaks

\* C9: a hit of the breakpoint at 0x1665 with wIsInBattle non-zero and an injection
\* pending leaves the placeholder species, the encoded nickname, the level, the
\* five base stats and the four moves of currentPokemon at their addresses, the
\* instruction pointer off 0x1665, injectionPending false, and no breakpoint at
\* 0x1665 in the registry or in the Port.
C9_InjectingHit ==
  [][(InjectionHit /\ mem[WRAM.wIsInBattle] # 0 /\ injectionPending) =>
       LET p == currentPokemon
           nick == encodeString(ToUpperCase(p.name), NAME_LENGTH)
       IN
         /\ mem'[WRAM.wEnemyMonSpecies2] = POKEMON.MEW
         /\ mem'[WRAM.wEnemyMonSpecies] = POKEMON.MEW
         /\ \A i \in 1..NAME_LENGTH : mem'[WRAM.wEnemyMonNick + i - 1] = nick[i]
         /\ mem'[WRAM.wEnemyMonLevel] = p.level
         /\ mem'[WRAM.wCurEnemyLevel] = p.level
         /\ mem'[WRAM.wEnemyMonBaseStats] = p.baseStats.hp
         /\ mem'[WRAM.wEnemyMonBaseStats + 1] = p.baseStats.attack
         /\ mem'[WRAM.wEnemyMonBaseStats + 2] = p.baseStats.defense
         /\ mem'[WRAM.wEnemyMonBaseStats + 3] = p.baseStats.speed
         /\ mem'[WRAM.wEnemyMonBaseStats + 4] = p.baseStats.special
         /\ \A i \in 1..4 : mem'[WRAM.wEnemyMonMoves + i - 1] = p.moves[i]
         /\ portPC' # LOAD_MON_FRONT_SPRITE_ADDR
         /\ injectionPending' = FALSE
         /\ breakpoints'[LOAD_MON_FRONT_SPRITE_ADDR] = "none"
         /\ LOAD_MON_FRONT_SPRITE_ADDR \notin portBreaks']_vars

\* C9's case: the callback has just injected a creature.
C9_Witness ==
  /\ lastDispatch.path = "inject"
  /\ lastDispatch.addr = LOAD_MON_FRONT_SPRITE_ADDR
  /\ mem[WRAM.wEnemyMonSpecies] = POKEMON.MEW
  /\ mem[WRAM.wEnemyMonLevel] = currentPokemon.level
  /\ ~injectionPending

\* C10: with no RET in the scan window after 0x1665, a hit of the breakpoint in a
\* battle sets the instruction pointer to the fallback 0x0073, and with an
\* injection pending the injection completes: injectionPending is cleared, the
\* breakpoint is removed, and nothing is raised.
C10_FallbackReturn ==
  [][(InjectionHit /\ mem[WRAM.wIsInBattle] # 0 /\ NoRetInWindow) =>
       /\ portPC' = KNOWN_RET_ADDR
       /\ raised' = FALSE
       /\ injectionPending =>
            /\ mem'[WRAM.wEnemyMonSpecies] = POKEMON.MEW
            /\ injectionPending' = FALSE
            /\ breakpoints'[LOAD_MON_FRONT_SPRITE_ADDR] = "none"
            /\ LOAD_MON_FRONT_SPRITE_ADDR \notin portBreaks']_vars

\* C10's case: an injection has completed on a ROM whose only RETs are at the
\* entry itself and just past the window, and the guest resumes at the fallback.
C10_Witness ==
  /\ lastDispatch.path = "inject"
  /\ romRets = {LOAD_MON_FRONT_SPRITE_ADDR, LOAD_MON_FRONT_SPRITE_ADDR + SCAN_LIMIT}
  /\ portPC = KNOWN_RET_ADDR
  /\ ~injectionPending
  /\ ~raised

(***************************************************************************)
(* Claims about the callback as a handler, checked under SpecHit.          *)
(***************************************************************************)

\* The addresses 0x1666..0x172C (offsets 1..199 from 0x1665) that hold RET.
RetWindow == {a \in 5734..5932 : readMemory(mem, a) = 201}

\* C11: for every memory content, findRetAddress() returns the lowest address in
\* 0x1666..0x172C whose byte is 0xC9, returns 0x0073 exactly when no address in
\* that range holds 0xC9, and never returns null.
C11_LowestRet ==
  LET r == findRetAddress(mem) IN
    /\ r # NullAddr
    /\ (r = 115) <=> (RetWindow = {})
    /\ (RetWindow # {}) => (r \in RetWindow /\ \A a \in RetWindow : r <= a)

\* C11's case: the routine was skipped on a ROM with RET at its entry (offset 0), at
\* the last offset of the window (199) and just past it (200): the guest resumes at
\* 0x172C.
C11_Witness ==
  /\ lastDispatch.path \in {"skip", "inject"}
  /\ romRets = {5733, 5932, 5933}
  /\ portPC = 5932

\* The callback is about to run in a battle with nothing to inject.
NothingPendingHit ==
  /\ InjectionHit
  /\ mem[WRAM.wIsInBattle] # 0
  /\ (~injectionPending \/ currentPokemon = NoPokemon)

\* C12: the callback run with wIsInBattle non-zero but no injection pending (or no
\* current creature) writes no guest memory (no creature field, no video memory,
\* no LCDC) and only redirects the instruction pointer past the routine; the
\* controller's fields and the breakpoint stay as they were.
C12_SkipOnly ==
  [][NothingPendingHit =>
       /\ mem' = mem
       /\ portPC' \in RetWindow \cup {KNOWN_RET_ADDR}
       /\ portPC' # LOAD_MON_FRONT_SPRITE_ADDR
       /\ injectionPending' = injectionPending
       /\ currentPokemon' = currentPokemon
       /\ breakpointInstalled' = breakpointInstalled
       /\ breakpoints' = breakpoints
       /\ portBreaks' = portBreaks]_vars

\* C12's case: the callback has just skipped the routine in a battle, a creature at
\* hand but nothing pending, and video memory is untouched.
C12_Witness ==
  /\ lastDispatch.path = "skip"
  /\ currentPokemon # NoPokemon
  /\ ~injectionPending
  /\ mem[WRAM.wIsInBattle] # 0
  /\ mem[VFRONTPIC_ADDR] = 0
  /\ mem[WRAM.wEnemyMonSpecies] = 0
  /\ portPC # LOAD_MON_FRONT_SPRITE_ADDR

\* The callback is about to run in a battle with a creature to inject.
InjectingHit ==
  /\ InjectionHit
  /\ mem[WRAM.wIsInBattle] # 0
  /\ injectionPending
  /\ currentPokemon # NoPokemon

\* Guest memory when the callback calls injectSpriteSync().
MemAtSpriteSync == writeMemoryAll(mem, injectDataWrites(currentPokemon))

\* The writes injectSpriteSync() is about to issue, in program order.
SpriteSyncWrites == injectSpriteSyncWrites(MemAtSpriteSync, currentPokemon)

\* C13: during sprite injection every write to 0x9000..0x9000+len-1 happens while
\* bit 7 of 0xFF40 is 0: every sprite byte is written, and before each of these
\* writes the register reads below 0x80; so a display that is on at entry is turned
\* off before the first sprite byte and on again only after the last.
C13_DisplayOffDuringSpriteWrites ==
  InjectingHit =>
    LET ws == SpriteSyncWrites
        sprite == currentPokemon.sprite2bpp
        isSprite(i) == ws[i][1] \in 36864..(36864 + Len(sprite) - 1)
    IN /\ \A k \in 1..Len(sprite) :
             \E i \in 1..Len(ws) : ws[i] = <<36864 + k - 1, sprite[k]>>
       /\ \A i \in 1..Len(ws) :
             isSprite(i) =>
               writeMemoryAll(MemAtSpriteSync, SubSeq(ws, 1, i - 1))[65344] < 128

\* C13's case: a sprite has just been injected with the display on, and its bytes
\* are in video memory.
C13_Witness ==
  /\ lastDispatch.path = "inject"
  /\ mem[LCDC_ADDR] >= 128
  /\ \A k \in 1..Len(currentPokemon.sprite2bpp) :
        mem[VFRONTPIC_ADDR + k - 1] = currentPokemon.sprite2bpp[k]

\* C14: after the sprite injection 0xFF40 holds exactly the value it held on entry,
\* all eight bits, whether the display was on or off.
C14_LcdcRestored ==
  [][InjectingHit => mem'[65344] = mem[65344]]_vars

\* C14's case: a creature with a sprite has just been injected, the display-control
\* register reads 0x91 as it did before the hit, and the injection is complete.
C14_Witness ==
  /\ lastDispatch.path = "inject"
  /\ lastDispatch.addr = LOAD_MON_FRONT_SPRITE_ADDR
  /\ mem[LCDC_ADDR] = 145
  /\ mem[VFRONTPIC_ADDR] = currentPokemon.sprite2bpp[1]
  /\ ~injectionPending

(***************************************************************************)
(* Claims about the battle poll, checked under SpecPoll.                   *)
(***************************************************************************)

\* update() is called in this step (every call moves framesSinceLastCheck).
UpdateStep == framesSinceLastCheck' # framesSinceLastCheck

\* The update() call of this step is a poll: the tenth call since the last one.
PollStep == UpdateStep /\ framesSinceLastCheck = 9

\* C18: on a poll that reads wIsInBattle non-zero when the previously polled value
\* was 0, the controller moves to 'in_battle', notifies the state-change listener
\* of it and calls prefetch() once, all within that poll; no other step (a poll
\* without that transition, an update() call that is not a poll, a guest step, a
\* task settling) calls prefetch().
C18_PrefetchOnBattleStart ==
  [][IF PollStep /\ mem[WRAM.wIsInBattle] # 0 /\ lastBattleState = 0
     THEN /\ state' = "in_battle"
          /\ lastUpdate'.notified = <<"in_battle">>
          /\ nPrefetch' = nPrefetch + 1
     ELSE nPrefetch' = nPrefetch]_vars

\* C18's case: the poll that saw the second battle start has just run: the
\* controller is 'in_battle', the listener was told, and prefetch() has been
\* called twice, once per battle.
C18_Witness ==
  /\ lastUpdate.polled
  /\ lastUpdate.notified = <<"in_battle">>
  /\ state = "in_battle"
  /\ lastBattleState # 0
  /\ battleCount = 1
  /\ nPrefetch = 2

\* C19: battleCount goes up by exactly 1 on each poll that reads wIsInBattle 0 when
\* the previously polled value was non-zero, and the battle-ended event is emitted
\* exactly once on that poll; no other update() call emits it and no other step
\* changes battleCount.
C19_BattleCount ==
  [][/\ IF PollStep /\ mem[WRAM.wIsInBattle] = 0 /\ lastBattleState # 0
        THEN /\ battleCount' = battleCount + 1
             /\ Len(lastUpdate'.battleEnds) = 1
        ELSE /\ battleCount' = battleCount
             /\ UpdateStep => lastUpdate'.battleEnds = <<>>
     /\ ~UpdateStep => lastUpdate' = lastUpdate]_vars

\* C19's case: the poll that saw the second battle end has just run and emitted
\* its event.
C19_Witness ==
  /\ lastUpdate.polled
  /\ Len(lastUpdate.battleEnds) = 1
  /\ lastBattleState = 0
  /\ battleCount = 2

\* The outcome the battle-ended event is to carry for result byte b.
ExpectedOutcome(b) ==
  CASE b = 0 -> "win"
    [] b = 1 -> "lose"
    [] b = 2 -> "draw"
    [] b = 3 -> "ran"
    [] b \in 4..255 -> "win"

\* C20: the outcome reported with the battle-ended event is 'win' for result byte
\* 0, 'lose' for 1, 'draw' for 2, 'ran' for 3 and 'win' for every byte 4..255.
C20_OutcomeMap ==
  [][(PollStep /\ mem[WRAM.wIsInBattle] = 0 /\ lastBattleState # 0) =>
       /\ \A b \in 0..255 : battleOutcome(b) = ExpectedOutcome(b)
       /\ lastUpdate'.battleEnds = <<ExpectedOutcome(mem[WRAM.wBattleResult])>>]_vars

\* C20's case: a battle that left 0xFF in wBattleResult has just been reported
\* as a win.
C20_Witness ==
  /\ lastUpdate.battleEnds = <<"win">>
  /\ mem[WRAM.wBattleResult] = 255
  /\ battleCount >= 1

\* The poll of this step reads a battle-active value with the same zero/non-zero
\* status as the value the previous poll read.
SameStatusPoll ==
  PollStep /\ ((mem[WRAM.wIsInBattle] = 0) <=> (lastBattleState = 0))

\* C21: once the game is ready, a poll whose battle-active reading has the same
\* zero/non-zero status as the previous poll's emits no event (no state change, no
\* battle-ended, no creature event), leaves state, battleCount, currentPokemon and
\* the injection flags unchanged, and calls neither prefetch() nor getNext().
C21_PollIdempotent ==
  [][(SameStatusPoll /\ gameReady) =>
       /\ events' = events
       /\ lastUpdate'.notified = <<>>
       /\ lastUpdate'.battleEnds = <<>>
       /\ UNCHANGED <<state, battleCount, currentPokemon, injectionPending,
                      breakpointInstalled>>
       /\ nPrefetch' = nPrefetch
       /\ nCalls' = nCalls]_vars

\* C21's case: a poll has just read the trainer-battle value 2 after the previous
\* poll read the wild-battle value 1 (one battle ended and the next began between
\* the two polls) and did nothing: no battle was counted and the one prefetch() of
\* the first battle start is the only one.
C21_Witness ==
  /\ lastUpdate.polled
  /\ lastUpdate.notified = <<>>
  /\ lastBattleState = 2
  /\ mem[WRAM.wBattleResult] = 1
  /\ state = "in_battle"
  /\ battleCount = 0
  /\ nPrefetch = 1

\* The poll of this step ends the scenario's battle: the first battle, a trainer
\* battle (battle-active value 2) that left the outcome code 1.
FirstBattleLost ==
  /\ PollStep
  /\ mem[WRAM.wIsInBattle] = 0
  /\ lastBattleState = 2
  /\ mem[WRAM.wBattleResult] = 1
  /\ battleCount = 0

\* The listeners' calls so far hold a creature event.
CreatureAnnounced == \E i \in 1..Len(events) : events[i].ev = "creatureReady"

\* C22, as first stated: in the scenario 0 -> 2 -> 0 with outcome code 1, the
\* creature event comes after the battle start and before battleEnded("lose").
C22_CreatureBeforeBattleEnded ==
  [][FirstBattleLost => CreatureAnnounced]_vars

\* C22, amended: in the scenario 0 -> 2 -> 0 with outcome code 1 the events occur
\* in the order battleStarted (the state change to 'in_battle'), battleEnded("lose"),
\* creatureReady: the poll that sees the battle end follows the battle start with
\* no creature event in between, takes battleCount from 0 to 1, emits
\* battleEnded("lose") and only then the creature event, at once when a creature
\* is queued and otherwise, after the state change to 'waiting_for_generation',
\* in the step in which the awaited getNext() resolves.
C22_EventOrder ==
  [][/\ FirstBattleLost =>
          /\ events = stateChanged(<<"in_battle">>)
          /\ battleCount' = 1
          /\ Len(events') >= 3
          /\ SubSeq(events', 1, 2) = events \o <<battleEnded("lose")>>
          /\ IF Len(queue) > 0
             THEN events'[3].ev = "creatureReady"
             ELSE /\ events'[3] = [ev |-> "stateChanged", arg |-> "waiting_for_generation"]
                  /\ ~CreatureAnnounced'
                  /\ prepareCalls' # {}
     /\ \A t \in Tasks : (Completes(t) /\ PrepareResumed(t) # {}) =>
          /\ Len(events') = Len(events) + 2
          /\ events'[Len(events) + 1] = creatureReady(PokemonOfTask(t))
          /\ (lastBattleState = 0 /\ battleCount = 1) =>
                /\ events[1] = [ev |-> "stateChanged", arg |-> "in_battle"]
                /\ events[2].ev = "battleEnded"
                /\ ~CreatureAnnounced]_vars

\* C22's case: the first battle was lost while no creature was queued, and the
\* getNext() that prepareNextPokemon() awaited has resolved.
C22_Witness ==
  /\ battleCount = 1
  /\ lastBattleState = 0
  /\ Len(events) = 5
  /\ events[1] = [ev |-> "stateChanged", arg |-> "in_battle"]
  /\ events[2] = battleEnded("lose")
  /\ events[3] = [ev |-> "stateChanged", arg |-> "waiting_for_generation"]
  /\ events[4].ev = "creatureReady"
  /\ events[5] = [ev |-> "stateChanged", arg |-> "idle"]
  /\ currentPokemon = PokemonOfTask(2)

\* C23: guest memory is written only in the per-frame path (update() after
\* runFrame()) or in a breakpoint callback run by runFrame(): the step in which a
\* generation task completes, with the continuations of the getNext() calls that
\* awaited it, writes no guest memory.
C23_NoWriteOnTaskCompletion ==
  [][(\E t \in Tasks : Completes(t)) => mem' = mem]_vars

\* C24: after a battle end observed with the queue empty, while the generation
\* task does not settle the controller stays 'waiting_for_generation': no poll
\* and no other step that leaves the task in flight moves it to another state.
C24_StaysWaiting ==
  [][(state = "waiting_for_generation" /\ prepareCalls # {} /\ inflight' = inflight)
       => state' = "waiting_for_generation"]_vars

\* The addresses that have a callback in the registry bps.
Registered(bps) == {a \in BpAddrs : bps[a] # "none"}

\* C25: while the wrapper is not initialized, readMemory and getPC return 0, and
\* writeMemory, writeMemoryBlock, setPC, setJoypad, runFrame, addBreakpoint and
\* clearBreakpoints return without raising and change nothing: currentTicks, the
\* breakpoint registry, the position of runFrame and the Port stay as they were.
C25_UninitializedNoOp ==
  [][(~initialized /\ ~initialized') =>
       /\ \A a \in RamAddrs \cup RomAddrs : readMemory(mem, a) = 0
       /\ getPC(portPC) = 0
       /\ ~raised'
       /\ UNCHANGED <<currentTicks, breakpoints, rfpc, targetTicks, portVars>>]_vars

\* C25's case: a wrapper that ran a frame and was destroyed: the frames asked for
\* since and the addBreakpoint() call just made left currentTicks at the frame's
\* end and the registry empty.
C25_Witness ==
  /\ ~initialized
  /\ lastCall = "addBreakpoint"
  /\ nFrames = MaxFrames
  /\ currentTicks = TICKS_PER_FRAME
  /\ Registered(breakpoints) = {}
  /\ portBreaks = {}

FellBack(t) ==
  /\ t \in inflight /\ t \notin inflight'
  /\ lastDoGenerate'.task = t
  /\ lastDoGenerate'.provider = "threw"
  /\ lastDoGenerate'.fallback = "returned"

FlagsPaired == injectionPending = breakpointInstalled

\* This step sets currentPokemon: injectGeneratedPokemon(), or prepareNextPokemon()
\* with a creature at hand (it announces the creature it has set).
CreatureSet ==
  \/ /\ lastCall' = "injectGeneratedPokemon"
     /\ nApi' = nApi + 1
     /\ currentPokemon' \in GeneratedPokemons
  \/ \E i \in (Len(events) + 1)..Len(events') : events'[i] = creatureReady(currentPokemon')

\* C28: between the controller's methods injectionPending and breakpointInstalled
\* are both false or both true; they become true only in a step that sets a
\* creature as currentPokemon (injectGeneratedPokemon or prepareNextPokemon), and
\* become false only by a hit of the breakpoint with wIsInBattle non-zero that
\* injects; currentPokemon is not null whenever injectionPending is true.
C28_ReadinessCycle ==
  [][/\ FlagsPaired /\ FlagsPaired'
     /\ (injectionPending' => currentPokemon' # NoPokemon)
     /\ ((~injectionPending /\ injectionPending') => CreatureSet)
     /\ ((injectionPending /\ ~injectionPending') =>
           InjectingHit /\ lastDispatch'.path = "inject")]_vars

\* C28's case: the first creature was injected at a breakpoint hit in a battle, the
\* battle has ended, and prepareNextPokemon() has set the next creature and
\* re-armed the injection.
C28_Witness ==
  /\ injectionPending /\ breakpointInstalled
  /\ battleCount = 1
  /\ LOAD_MON_FRONT_SPRITE_ADDR \in armed
  /\ mem[WRAM.wEnemyMonLevel] # 0
  /\ \E i \in 1..Len(events) : events[i] = creatureReady(currentPokemon)

\* buildPartyMon() has been called on its own.
Built == partyMon # NoPartyMon

\* A reader of the struct: the byte at offset o, and the two bytes at o and o + 1
\* taken as "(high << 8) | low".
ReadByte(struct, o) == struct[o + 1]
ReadWord(struct, o) == struct[o + 1] * 256 + struct[o + 2]

\* The move ids read back from offsets 8..11 are those of the creature.
MovesReadBack ==
  \A i \in 0..3 :
    ReadByte(partyMon.struct, 8 + i) =
      (IF i < Len(partyMon.creature.moves) THEN partyMon.creature.moves[i + 1] ELSE 0)

\* The level read back from offsets 3 and 33 is that of the creature.
LevelReadBack ==
  /\ ReadByte(partyMon.struct, 3) = partyMon.creature.level
  /\ ReadByte(partyMon.struct, 33) = partyMon.creature.level

\* C29 as stated: for every level in 1..100, base stat in 1..255 and move ids in
\* 0..255, the struct built for a creature reads back the creature's level (offsets
\* 3 and 33), its move ids (offsets 8..11) and, from the big-endian stat block, its
\* base stats.
C29_BaseStatsReadBack ==
  Built =>
    /\ LevelReadBack
    /\ MovesReadBack
    /\ ReadWord(partyMon.struct, 36) = partyMon.creature.baseStats.attack
    /\ ReadWord(partyMon.struct, 38) = partyMon.creature.baseStats.defense
    /\ ReadWord(partyMon.struct, 40) = partyMon.creature.baseStats.speed
    /\ ReadWord(partyMon.struct, 42) = partyMon.creature.baseStats.special

\* C29: for every level in 1..100 and move ids in 0..255, the struct built for a
\* creature reads back the creature's level (offsets 3 and 33) and its move ids
\* (offsets 8..11, 0 for a move the list lacks) unchanged; the big-endian stat block
\* reads back the stats buildPartyMon() derives from the level, floor(level / 2) + 10
\* for attack, speed and special and floor(level * 4 / 10) + 10 for defense,
\* whatever the creature's base stats.
C29_LevelAndMovesReadBack ==
  Built =>
    /\ LevelReadBack
    /\ MovesReadBack
    /\ ReadWord(partyMon.struct, 36) = (partyMon.creature.level \div 2) + 10
    /\ ReadWord(partyMon.struct, 38) = ((partyMon.creature.level * 4) \div 10) + 10
    /\ ReadWord(partyMon.struct, 40) = (partyMon.creature.level \div 2) + 10
    /\ ReadWord(partyMon.struct, 42) = (partyMon.creature.level \div 2) + 10

\* C29's case: the struct of a level-100 creature with move ids 255, 0, 33, 1 and
\* base attack 255.
C29_Witness ==
  /\ Built
  /\ partyMon.creature.level = 100
  /\ partyMon.creature.moves = <<255, 0, 33, 1>>
  /\ partyMon.creature.baseStats.attack = 255
  /\ SubSeq(partyMon.struct, 9, 12) = <<255, 0, 33, 1>>
  /\ partyMon.struct[4] = 100 /\ partyMon.struct[34] = 100
  /\ SubSeq(partyMon.struct, 37, 38) = <<0, 60>>

\* The bytes of each field of PARTYMON_STRUCT.
FieldWidth ==
  [ SPECIES |-> 1, HP |-> 2, BOX_LEVEL |-> 1, STATUS |-> 1, TYPE1 |-> 1, TYPE2 |-> 1,
    CATCH_RATE |-> 1, MOVES |-> 4, OT_ID |-> 2, EXP |-> 3, HP_EXP |-> 2,
    ATK_EXP |-> 2, DEF_EXP |-> 2, SPD_EXP |-> 2, SPC_EXP |-> 2, DVS |-> 2,
    PP |-> 4, LEVEL |-> 1, MAX_HP |-> 2, ATK |-> 2, DEF_ |-> 2, SPD |-> 2,
    SPC |-> 2 ]

\* The offsets field f takes.
FieldOffsets(f) == PARTYMON_STRUCT[f]..(PARTYMON_STRUCT[f] + FieldWidth[f] - 1)

\* The values buildPartyMon() stores in its two-byte fields for the call recorded.
WordFields ==
  LET o == partyMon.options
      baseHp == (((o.level * 2) + 10 + o.level) * o.level) \div 100 + o.level + 10
  IN [ HP |-> IF o.hp = Undefined THEN baseHp ELSE o.hp,
       MAX_HP |-> IF o.maxHp = Undefined THEN baseHp ELSE o.maxHp,
       ATK |-> (o.level \div 2) + 10,
       DEF_ |-> ((o.level * 4) \div 10) + 10,
       SPD |-> (o.level \div 2) + 10,
       SPC |-> (o.level \div 2) + 10 ]

\* The HP and max-HP words of buildPartyMon({..., hp: v, maxHp: v}) read back as v.
WordReadsBack(v) ==
  LET options == [species |-> POKEMON.MEW, level |-> 1, moves |-> NoMoves, hp |-> v,
                  maxHp |-> v]
      S == PARTYMON_STRUCT
  IN /\ partyMonByte(options, S.HP) * 256 + partyMonByte(options, S.HP + 1) = v
     /\ partyMonByte(options, S.MAX_HP) * 256 + partyMonByte(options, S.MAX_HP + 1) = v

\* C30: the struct buildPartyMon() returns has exactly 44 bytes; the fields of
\* PARTYMON_STRUCT do not overlap and together cover offsets 0..43; each two-byte
\* field (HP, max HP, attack, defense, speed, special) is stored high byte first:
\* read back as (high << 8) | low it is the value stored, for every value 0..65535.
C30_BigEndian44 ==
  /\ PARTYMON_STRUCT.LENGTH = 44
  /\ \A f, g \in DOMAIN FieldWidth : f # g => FieldOffsets(f) \cap FieldOffsets(g) = {}
  /\ UNION {FieldOffsets(f) : f \in DOMAIN FieldWidth} = 0..43
  /\ Built =>
       /\ Len(partyMon.struct) = 44
       /\ \A i \in 1..44 : partyMon.struct[i] \in 0..255
       /\ \A f \in DOMAIN WordFields :
            ReadWord(partyMon.struct, PARTYMON_STRUCT[f]) = WordFields[f]
  /\ ~Built => \A v \in 0..65535 : WordReadsBack(v)

\* C30's case: a struct whose HP field holds 256 (bytes 1, 0) and whose max-HP
\* field holds 0x1234 (bytes 0x12, 0x34).
C30_Witness ==
  /\ Built
  /\ partyMon.options.hp = 256
  /\ partyMon.options.maxHp = 4660
  /\ Len(partyMon.struct) = 44
  /\ SubSeq(partyMon.struct, 2, 3) = <<1, 0>>
  /\ SubSeq(partyMon.struct, 35, 36) = <<18, 52>>

\* The Port has halted early where a callback that returns is registered.
ReturningCallbackHit ==
  /\ EarlyHalt
  /\ breakpoints[portPC] \in {"count", "jump"}

\* C31: in runFrame(), after a breakpoint callback returns: if the instruction
\* pointer differs from the hit address the loop goes on to call the Port again
\* toward the same frame target; if it is unchanged runFrame() records the ticks
\* reached and returns, and neither the Port nor a callback is called again before
\* the next runFrame() call.
C31_ResumeOrHalt ==
  [][/\ ReturningCallbackHit =>
          /\ lastDispatch'.kind = breakpoints[portPC]
          /\ currentTicks' = portTicks
          /\ targetTicks' = targetTicks
          /\ rfpc' = IF portPC' # portPC THEN "run" ELSE "idle"
     /\ (rfpc = "idle" /\ nFrames' = nFrames) =>
          /\ portTicks' = portTicks
          /\ lastDispatch' = lastDispatch]_vars

\* C31's case: a callback that left the instruction pointer where it was ended the
\* frame at the ticks reached, short of the frame target.
C31_Witness ==
  /\ rfpc = "idle"
  /\ lastDispatch.kind = "count"
  /\ lastDispatch.left
  /\ portPC = lastDispatch.addr
  /\ currentTicks = portTicks
  /\ frameStart < currentTicks /\ currentTicks < targetTicks

\* The Port has halted early at an address with no callback registered.
UnregisteredHalt ==
  /\ EarlyHalt
  /\ breakpoints[portPC] = "none"

\* C32: execution stall: when the Port stops before the frame target at an address
\* with no registered callback and its tick count equals currentTicks, runFrame()
\* returns at once with currentTicks unchanged and without raising, and the next
\* runFrame() call computes its target anew from currentTicks and runs the Port
\* again; when ticks have advanced, the loop records them and goes on toward the
\* same target.
C32_StallEndsFrame ==
  [][/\ (UnregisteredHalt /\ portTicks = currentTicks) =>
          /\ rfpc' = "idle"
          /\ currentTicks' = currentTicks
          /\ raised' = raised
          /\ lastDispatch'.kind = "stall"
     /\ (UnregisteredHalt /\ portTicks # currentTicks) =>
          /\ rfpc' = "run"
          /\ currentTicks' = portTicks
          /\ targetTicks' = targetTicks
     /\ (initialized /\ nFrames' = nFrames + 1) =>
          /\ targetTicks' = currentTicks + TICKS_PER_FRAME
          /\ rfpc' = "run"]_vars

\* C32's case: a frame ended in a stall and the next runFrame() call is under way
\* with its target a frame ahead of the unchanged currentTicks.
C32_Witness ==
  /\ lastDispatch.kind = "stall"
  /\ lastDispatch.left
  /\ nFrames = 2
  /\ rfpc = "run"
  /\ currentTicks = portTicks
  /\ targetTicks = currentTicks + TICKS_PER_FRAME

\* C33: currentTicks never decreases over any sequence of the wrapper's operations,
\* changes only inside runFrame() and only to the tick count the Port has reported,
\* and after every return of runFrame() on an initialized wrapper equals the Port's
\* tick count.
C33_TicksFollowPort ==
  [][/\ currentTicks' >= currentTicks
     /\ (currentTicks' # currentTicks) => (rfpc = "check" /\ currentTicks' = portTicks)
     /\ (initialized /\ rfpc = "check" /\ rfpc' = "idle" /\ ~raised') =>
          currentTicks' = portTicks']_vars

\* The poll just made saw a battle end.
BattleEndPolled == lastUpdate.polled /\ lastUpdate.battleEnds # <<>>

\* The creature of task t is the current one and its injection is armed: pending,
\* with the controller's callback registered at LoadMonFrontSprite.
ArmedWith(t) ==
  /\ currentPokemon = PokemonOfTask(t)
  /\ injectionPending
  /\ breakpointInstalled
  /\ breakpoints[LOAD_MON_FRONT_SPRITE_ADDR] = "inject"
  /\ LOAD_MON_FRONT_SPRITE_ADDR \in portBreaks

\* C34: when every started generation task completes, each poll that sees a battle
\* end (the n-th one makes the service's call n + 1, getNextIfReady() or getNext())
\* is followed by a state where the creature that call took from the service is
\* currentPokemon, injectionPending is true and the breakpoint at 0x1665 is
\* registered.
C34_EventuallyArmed ==
  \A n \in 1..MaxBattles :
    (battleCount = n /\ BattleEndPolled)
      ~> (\E t \in Tasks : <<n + 1, t>> \in Range(returned) /\ ArmedWith(t))

\* C34's case: the battle ended before the creature was generated; the awaited
\* getNext() call has returned, and the creature is current and armed again after
\* the injection of the first one.
C34_Witness ==
  /\ battleCount = 1
  /\ 2 \in getNextCalls
  /\ prepareCalls = {}
  /\ fired = {}
  /\ \E t \in Tasks : <<2, t>> \in Range(returned) /\ ArmedWith(t)


(***************************************************************************)
(* Claims about the page's start-up, checked under SpecBoot.               *)
(***************************************************************************)
\* The injectGeneratedPokemon() calls that were handed the first creature, the one
\* startGeneration()'s getNext() resolved with.
InjectionsOfFirst ==
  {i \in 1..Len(injections) : firstPokemon # 0 /\ injections[i].pokemon = firstPokemon}

\* update() is called only with the first injection done.
UpdateGated ==
  [][(lastUpdate' # lastUpdate \/ framesSinceLastCheck' # framesSinceLastCheck)
       => injectionDone]_vars

\* A joypad press reaches the emulator only with the first injection done.
PressGated == [][(portJoyp' \ portJoyp # {}) => injectionDone]_vars

\* tryInjectFirstPokemon() injects at most once, with the boot period over and the
\* first getNext() resolved.
GatedInjection ==
  \A i \in 1..Len(injections) :
    injections[i].by = "tryInjectFirstPokemon" =>
      /\ injections[i].gameBooted /\ injections[i].generationComplete
      /\ bootFrameCount >= BOOT_FRAMES
      /\ injections[i].pokemon = firstPokemon
      /\ \A j \in 1..Len(injections) : injections[j].by = injections[i].by => j = i

\* C35: the first creature is handed to injectGeneratedPokemon() exactly once, and
\* only with the boot period of 660 frames over and the first getNext() resolved;
\* update() is not called and no joypad press reaches the emulator before that.
C35_StartupGating ==
  /\ [](/\ Cardinality(InjectionsOfFirst) <= 1
        /\ injectionDone => Cardinality(InjectionsOfFirst) = 1
        /\ \A i \in InjectionsOfFirst :
             injections[i].gameBooted /\ injections[i].generationComplete)
  /\ UpdateGated
  /\ PressGated


\* C37: the ready queue holds at most one creature, whatever the interleaving of
\* prefetch(), getNext(), getNextIfReady(), invalidateQueue() and task completions.
C37_QueueAtMostOne == Len(queue) <= 1

\* A creature is queued after an earlier one was queued and taken or thrown away.
C37_Witness ==
  /\ Len(queue) = 1
  /\ Len(completed) >= 2
  /\ nPrefetch >= 1
  /\ nInvalidate >= 1
  /\ returned # <<>>


\* doGenerate() of task t rejects in this step.
TaskFails(t) == t \in inflight /\ t \in failed' /\ t \notin failed

\* C36: when a generation task fails, nothing is pushed to the queue, the listener
\* gets an 'error' state change carrying the task's error, the in-flight slot is
\* cleared, no rejection of a task started by prefetch() goes unhandled, and a
\* later prefetch() or getNext() that finds the queue empty starts a new task.
C36_FailureClearsSlot ==
  [][/\ \A t \in Tasks :
          TaskFails(t) =>
            /\ queue' = queue
            /\ t \notin Range(completed')
            /\ lastStateChange' = [state |-> "error", task |-> t]
            /\ generating' = FALSE
            /\ pendingPromise' = 0
            /\ inflight' = {}
            /\ unhandled' = {}
            /\ owner[t] # 0 => owner[t] \in rejected'
     /\ (/\ failed # {}
         /\ ~generating
         /\ queue = <<>>
         /\ \/ nPrefetch' = nPrefetch + 1
            \/ nCalls' = nCalls + 1 /\ (nCalls + 1) \in getNextCalls')
          => /\ Len(started') = Len(started) + 1
             /\ inflight' = {started'[Len(started')]}
             /\ generating'
             /\ pendingPromise' = started'[Len(started')]]_vars

\* C36's case: the task prefetch() had started failed, and the next prefetch() has
\* started another one.
C36_Witness ==
  /\ failed = {1}
  /\ rejected = {}
  /\ unhandled = {}
  /\ queue = <<>>
  /\ nPrefetch = 2
  /\ nCalls = 0
  /\ inflight = {2}
  /\ lastStateChange = [state |-> "generating", task |-> 0]


\* C38: the controller's breakpointInstalled flag is true exactly when the wrapper's
\* registry holds a callback for 0x1665.
C38_FlagMatchesRegistry ==
  breakpointInstalled <=> (breakpoints[LOAD_MON_FRONT_SPRITE_ADDR] # "none")


\* C39: whenever the battle-active value polled last (lastBattleState) is non-zero,
\* the controller's state is 'in_battle'.
C39_InBattleWhileActive == lastBattleState # 0 => state = "in_battle"


(***************************************************************************)
(* Claims about encodeString(), checked under SpecEncode.                  *)
(***************************************************************************)
\* The keys of CHARMAP: 26 upper-case and 26 lower-case letters, 10 digits, the
\* space and '@'.
InCharmap(c) ==
  c \in Range(UpperChars) \cup Range(LowerChars) \cup Range(DigitChars) \cup {" ", "@"}

\* C40: encodeString(s) with the default length returns 11 bytes: the codes of at
\* most the first 10 characters of s, 0x7F for a character that is no key of
\* CHARMAP, the terminator 0x50 at index min(length(s), 10) and 0 after it; the
\* nickname write at wEnemyMonNick stays in 0xCFDA..0xCFE4, below 0xCFE5.
C40_NickFits ==
  encoded # NoEncoded =>
    LET s == encoded.str
        b == encoded.bytes
        n == IF Len(s) < 10 THEN Len(s) ELSE 10
    IN /\ Len(b) = 11
       /\ \A i \in 1..n : ~InCharmap(s[i]) => b[i] = 127
       /\ \A i \in 1..n : InCharmap(s[i]) => b[i] = CHARMAP(s[i]) /\ b[i] \in 0..255
       /\ b[n + 1] = 80
       /\ \A i \in (n + 2)..11 : b[i] = 0
       /\ Len(encoded.writes) = 11
       /\ \A i \in 1..Len(encoded.writes) :
            /\ encoded.writes[i][1] \in 53210..53220
            /\ encoded.writes[i][1] < WRAM.wEnemyMonSpecies
            /\ encoded.writes[i][2] = b[i]

\* C40's case: a string of 12 characters, with characters that are no keys of
\* CHARMAP, was cut to 10 and terminated in the last byte.
C40_Witness ==
  /\ encoded.str = <<"-", "A", "-", "A", "A", "A", "A", "A", "A", "-", "A", "-">>
  /\ encoded.bytes = <<127, 128, 127, 128, 128, 128, 128, 128, 128, 127, 80>>
  /\ encoded.writes[11] = <<53220, 80>>

=============================================================================
